---- MODULE Spec2Model ----
(***************************************************************************)
(* OpCore Simplify GUI (src/OpCore-Simplify-GUI.py).                       *)
(*                                                                         *)
(* The build page starts a BuildThread (a QThread) whose run() emits the   *)
(* signals progress, log and finished.  The page lives in the GUI thread,  *)
(* so each emission is a queued call: it is appended to the GUI thread's   *)
(* event queue and the connected slot runs when the event loop takes it    *)
(* out.  The model keeps that queue, every thread's position in run(),     *)
(* and the widgets and main-window fields the handlers read and write.     *)
(*                                                                         *)
(* Texts are pairs <<format, argument>>, so that an f-string such as       *)
(* f"Build failed: {str(e)}" keeps the part it is formatted from.          *)
(***************************************************************************)
EXTENDS Integers, Sequences, FiniteSets, TLC

VARIABLES
    \* OpCoreSimplifyGUI (the main window)
    hardware_report_path, hardware_info, selected_macos_version,
    selected_smbios_model, smbios_config, selected_acpi_patches,
    selected_kexts, result_dir, status,
    \* BuildPage
    build_btn, cancel_btn, progress_bar, progress_info, log_text,
    status_info, build_thread, threads, queue,
    \* ACPIConfigPage
    patches_checked, detect, search_text, priority_filter, hidden,
    \* KextConfigPage
    kext_checked, kext_detect,
    \* MacOSVersionPage
    version_text, recommend_label, compatibility_result, compatibility_style,
    evaluations,
    \* SMBIOSConfigPage
    model_text, field_inputs, synthesized,
    \* HardwareReportPage
    report_info, hardware_overview

vars == <<hardware_report_path, hardware_info, selected_macos_version,
          selected_smbios_model, smbios_config, selected_acpi_patches,
          selected_kexts, result_dir, status,
          build_btn, cancel_btn, progress_bar, progress_info, log_text,
          status_info, build_thread, threads, queue,
          patches_checked, detect, search_text, priority_filter, hidden,
          kext_checked, kext_detect,
          version_text, recommend_label, compatibility_result,
          compatibility_style, evaluations, model_text, field_inputs,
          synthesized, report_info, hardware_overview>>

mainVars == <<hardware_report_path, hardware_info, selected_macos_version,
              selected_smbios_model, smbios_config, selected_acpi_patches,
              selected_kexts>>

buildVars == <<result_dir, build_btn, cancel_btn, progress_bar, progress_info,
               log_text, status_info, build_thread, threads, queue>>

\* the search box, the priority filter and the hidden flag of every list item
filterVars == <<search_text, priority_filter, hidden>>

acpiVars == <<patches_checked, detect, search_text, priority_filter, hidden>>

kextVars == <<kext_checked, kext_detect>>

reportVars == <<report_info, hardware_overview>>

\* evaluations observes the compatibility checks of one pair of hardware
\* information and version (its key): it keeps what the first of them showed
versionVars == <<version_text, recommend_label, compatibility_result,
                 compatibility_style, evaluations>>

\* synthesized observes the simulated generations: it keeps the model and the
\* values of the latest one
smbiosVars == <<model_text, field_inputs, synthesized>>

-----------------------------------------------------------------------------
(* Bounds of the model *)

\* BuildThreads created over one behaviour
MaxRuns == 2

\* queued signal emissions that may wait in the GUI thread's event queue
MaxQueue == 1

\* lines of the build log the model keeps: the newest MaxLog lines
MaxLog == 1

-----------------------------------------------------------------------------
(* Values *)

\* Python's None for a string-valued field
None == "None"

\* main_window.result_dir = None
NoDir == <<>>

\* a text without a formatted argument
T(s) == <<s, "">>

\* f"{prefix}{arg}"
F(prefix, arg) == <<prefix, arg>>

\* the truth value Python gives a string-valued field (None and "" are false)
Truthy(x) == x # None /\ x # ""

\* os.path.join(a, b) for a non-empty a and a relative b
PathJoin(a, b) == <<a, b>>

\* what str(e) can be for an exception raised inside run()
Errors == {"disk full"}

\* directories QFileDialog.getExistingDirectory can return; "" when dismissed
OutputDirs == {"/home/u/EFI"}

DirInputs == OutputDirs \cup {""}


-----------------------------------------------------------------------------
(* BuildThread *)

\* the signal emissions of run()'s try block, in statement order
Program ==
    << [kind |-> "log",      value |-> 0,   success |-> FALSE, text |-> T("Starting OpenCore EFI build...")],
       [kind |-> "progress", value |-> 10,  success |-> FALSE, text |-> T("Initializing build environment")],
       [kind |-> "log",      value |-> 0,   success |-> FALSE, text |-> T("Validating hardware report and configuration...")],
       [kind |-> "progress", value |-> 20,  success |-> FALSE, text |-> T("Validating configuration")],
       [kind |-> "log",      value |-> 0,   success |-> FALSE, text |-> T("Applying ACPI patches...")],
       [kind |-> "progress", value |-> 35,  success |-> FALSE, text |-> T("Applying ACPI patches")],
       [kind |-> "log",      value |-> 0,   success |-> FALSE, text |-> T("Configuring and copying Kext drivers...")],
       [kind |-> "progress", value |-> 50,  success |-> FALSE, text |-> T("Configuring Kext drivers")],
       [kind |-> "log",      value |-> 0,   success |-> FALSE, text |-> T("Generating SMBIOS information...")],
       [kind |-> "progress", value |-> 65,  success |-> FALSE, text |-> T("Generating SMBIOS information")],
       [kind |-> "log",      value |-> 0,   success |-> FALSE, text |-> T("Generating config.plist configuration file...")],
       [kind |-> "progress", value |-> 80,  success |-> FALSE, text |-> T("Generating configuration file")],
       [kind |-> "log",      value |-> 0,   success |-> FALSE, text |-> T("Packaging EFI folder...")],
       [kind |-> "progress", value |-> 90,  success |-> FALSE, text |-> T("Packaging EFI")],
       [kind |-> "progress", value |-> 100, success |-> FALSE, text |-> T("Build completed")],
       [kind |-> "log",      value |-> 0,   success |-> FALSE, text |-> T("OpenCore EFI build completed!")],
       [kind |-> "finished", value |-> 0,   success |-> TRUE,  text |-> T("EFI build successfully completed")] >>

\* positions of a thread in run(): 1..Len(Program) is the next emission of the
\* try block, PcReturn the return from run(), PcExceptLog and PcExceptFinished
\* the two emissions of the except block, PcNone a thread that runs no more
PcNone == 0

PcReturn == Len(Program) + 1

PcExceptLog == Len(Program) + 2

PcExceptFinished == Len(Program) + 3

\* the emissions of the except block for the caught exception e
ExceptLog(e) ==
    [kind |-> "log", value |-> 0, success |-> FALSE, text |-> F("Error: ", e)]

ExceptFinished(e) ==
    [kind |-> "finished", value |-> 0, success |-> FALSE, text |-> F("Build failed: ", e)]

\* the stage whose block of run() holds statement pc: two emissions a stage
\* for the seven working stages, then the completion block
StageOf(pc) == IF pc <= 14 THEN (pc + 1) \div 2 ELSE 8

\* the status text each stage announces with its progress emission
StageText(k) == Program[IF k <= 7 THEN 2 * k ELSE 15].text

\* BuildThread.__init__: the thread object as start_build creates it, then
\* QThread.start().  While run() executes, exc is the exception its except
\* block has caught, and percents and failed_stage record what the run has
\* done so far (the percent values it has emitted, the stage an exception
\* left); completions are the completion events the thread has emitted
NewThread(config) ==
    [config |-> config, state |-> "running", pc |-> 1, exc |-> None,
     percents |-> <<>>, completions |-> <<>>, failed_stage |-> 0]

\* QThread.isRunning()
isRunning(t) == threads[t].state = "running"

\* a signal emission across threads: a queued call to the connected slot
Emit(t, ev) == queue' = Append(queue, ev @@ [run |-> t])

\* the thread after emitting ev from position pc
AfterEmit(th, ev, next) ==
    [th EXCEPT !.pc = next,
               !.percents = IF ev.kind = "progress" THEN Append(@, ev.value) ELSE @,
               !.completions = IF ev.kind = "finished" THEN Append(@, ev.success) ELSE @]

\* run_emit with the ACPI patch stage left out
run_emit_SkipsStage(t) ==
    /\ t \in 1..Len(threads)
    /\ isRunning(t)
    /\ threads[t].pc \in 1..Len(Program)
    /\ Len(queue) < MaxQueue
    /\ LET ev == Program[threads[t].pc] IN
         /\ Emit(t, ev)
         /\ threads' = [threads EXCEPT ![t] =
                          AfterEmit(@, ev, IF @.pc = 4 THEN 7 ELSE @.pc + 1)]
    /\ UNCHANGED <<mainVars, acpiVars, kextVars, status, result_dir, build_btn,
                   cancel_btn, progress_bar, progress_info, log_text,
                   status_info, build_thread>>
    /\ UNCHANGED <<reportVars, versionVars, smbiosVars>>

\* run(): the next emission of the try block
run_emit(t) ==
    /\ t \in 1..Len(threads)
    /\ isRunning(t)
    /\ threads[t].pc \in 1..Len(Program)
    /\ Len(queue) < MaxQueue
    /\ LET ev == Program[threads[t].pc] IN
         /\ Emit(t, ev)
         /\ threads' = [threads EXCEPT ![t] = AfterEmit(@, ev, @.pc + 1)]
    /\ UNCHANGED <<mainVars, acpiVars, kextVars, status, result_dir, build_btn,
                   cancel_btn, progress_bar, progress_info, log_text,
                   status_info, build_thread>>
    /\ UNCHANGED <<reportVars, versionVars, smbiosVars>>

\* run(): a statement of the try block raises e; control moves to the except block
run_raise(t, e) ==
    /\ t \in 1..Len(threads)
    /\ isRunning(t)
    /\ threads[t].pc \in 1..Len(Program)
    /\ threads' = [threads EXCEPT ![t] =
                     [@ EXCEPT !.exc = e, !.failed_stage = StageOf(threads[t].pc),
                               !.pc = PcExceptLog]]
    /\ UNCHANGED <<mainVars, acpiVars, kextVars, status, result_dir, build_btn,
                   cancel_btn, progress_bar, progress_info, log_text,
                   status_info, build_thread, queue>>
    /\ UNCHANGED <<reportVars, versionVars, smbiosVars>>

\* run(): the except block, self.log.emit then self.finished.emit(False, ...)
run_except(t) ==
    /\ t \in 1..Len(threads)
    /\ isRunning(t)
    /\ threads[t].pc \in {PcExceptLog, PcExceptFinished}
    /\ Len(queue) < MaxQueue
    /\ LET th == threads[t]
           ev == IF th.pc = PcExceptLog THEN ExceptLog(th.exc)
                                        ELSE ExceptFinished(th.exc)
           next == IF th.pc = PcExceptLog THEN PcExceptFinished ELSE PcReturn IN
         /\ Emit(t, ev)
         /\ threads' = [threads EXCEPT ![t] = AfterEmit(@, ev, next)]
    /\ UNCHANGED <<mainVars, acpiVars, kextVars, status, result_dir, build_btn,
                   cancel_btn, progress_bar, progress_info, log_text,
                   status_info, build_thread>>
    /\ UNCHANGED <<reportVars, versionVars, smbiosVars>>

\* a thread that executes run() no longer
Stopped(th, state) ==
    [th EXCEPT !.state = state, !.pc = PcNone, !.exc = None,
               !.percents = <<>>, !.failed_stage = 0]

\* run() returns: the thread finishes and isRunning() becomes false
run_return(t) ==
    /\ t \in 1..Len(threads)
    /\ isRunning(t)
    /\ threads[t].pc = PcReturn
    /\ threads' = [threads EXCEPT ![t] = Stopped(@, "finished")]
    /\ UNCHANGED <<mainVars, acpiVars, kextVars, status, result_dir, build_btn,
                   cancel_btn, progress_bar, progress_info, log_text,
                   status_info, build_thread, queue>>
    /\ UNCHANGED <<reportVars, versionVars, smbiosVars>>

-----------------------------------------------------------------------------
(* BuildPage *)

\* the test without its SMBIOS operand
ConfigComplete_NoSmbios ==
    /\ Truthy(hardware_report_path)
    /\ Truthy(selected_macos_version)

\* start_build's test of the main window's configuration
ConfigComplete ==
    /\ Truthy(hardware_report_path)
    /\ Truthy(selected_macos_version)
    /\ Truthy(selected_smbios_model)

\* the build_config dictionary start_build hands to the thread
BuildConfig(output_dir) ==
    [hardware_report_path |-> hardware_report_path,
     macos_version |-> selected_macos_version,
     smbios_config |-> smbios_config,
     selected_acpi_patches |-> selected_acpi_patches,
     selected_kexts |-> selected_kexts,
     output_dir |-> output_dir]

\* start_build, the slot of build_btn.clicked; output_dir is what the directory
\* dialog returns.  The dialog is modal: while it is open no other button of
\* the window can be clicked.  Slots of queued emissions may run while it is
\* open; they neither read nor write what start_build has read before it, so
\* such a run equals one where they run just before the click, and the
\* handler is one step.
start_build(output_dir) ==
    /\ build_btn
    /\ Len(threads) < MaxRuns
    /\ IF ConfigComplete /\ output_dir # ""
       THEN /\ status' = T("Starting OpenCore EFI build...")
            /\ build_btn' = FALSE
            /\ cancel_btn' = TRUE
            /\ progress_bar' = 0
            /\ threads' = Append(threads, NewThread(BuildConfig(output_dir)))
            /\ build_thread' = Len(threads) + 1
       ELSE UNCHANGED <<status, build_btn, cancel_btn, progress_bar, threads,
                        build_thread>>
    /\ UNCHANGED <<mainVars, acpiVars, kextVars, result_dir, progress_info,
                   log_text, status_info, queue>>
    /\ UNCHANGED <<reportVars, versionVars, smbiosVars>>

\* QThread.terminate() followed by wait(): the thread stops where it is
Terminated(th) == [Stopped(th, "terminated") EXCEPT !.completions = <<>>]

\* cancel_build if it terminated the thread and left the buttons as they were
cancel_build_LeavesButtons ==
    /\ cancel_btn
    /\ IF build_thread # 0 /\ isRunning(build_thread)
       THEN /\ threads' = [threads EXCEPT ![build_thread] = Terminated(@)]
            /\ status' = T("Build cancelled")
       ELSE UNCHANGED <<threads, status>>
    /\ UNCHANGED <<mainVars, acpiVars, kextVars, result_dir, progress_bar,
                   progress_info, log_text, status_info, build_thread, queue,
                   build_btn, cancel_btn>>
    /\ UNCHANGED <<reportVars, versionVars, smbiosVars>>

\* cancel_build, the slot of cancel_btn.clicked
cancel_build ==
    /\ cancel_btn
    /\ IF build_thread # 0 /\ isRunning(build_thread)
       THEN /\ threads' = [threads EXCEPT ![build_thread] = Terminated(@)]
            /\ status' = T("Build cancelled")
            /\ build_btn' = TRUE
            /\ cancel_btn' = FALSE
       ELSE UNCHANGED <<threads, status, build_btn, cancel_btn>>
    /\ UNCHANGED <<mainVars, acpiVars, kextVars, result_dir, progress_bar,
                   progress_info, log_text, status_info, build_thread, queue>>
    /\ UNCHANGED <<reportVars, versionVars, smbiosVars>>

\* update_progress(value, text)
update_progress(ev) ==
    /\ progress_bar' = ev.value
    /\ progress_info' = ev.text
    /\ status' = ev.text
    /\ UNCHANGED <<result_dir, build_btn, cancel_btn, log_text, status_info>>

\* the newest MaxLog lines of a log
Newest(lines) ==
    IF Len(lines) <= MaxLog THEN lines
    ELSE SubSeq(lines, Len(lines) - MaxLog + 1, Len(lines))

\* log_build_message(message): self.log_text.append(message); the copy it
\* hands to the main window's operation log is not modelled
log_build_message(ev) ==
    /\ log_text' = Newest(Append(log_text, ev.text))
    /\ UNCHANGED <<result_dir, status, build_btn, cancel_btn, progress_bar,
                   progress_info, status_info>>

\* build_finished if it re-enabled the Start button only after a success
build_finished_SuccessOnly(ev) ==
    /\ status' = ev.text
    /\ IF ev.success
       THEN LET dir == PathJoin(threads[build_thread].config.output_dir, "OpenCore-EFI") IN
              /\ build_btn' = TRUE
              /\ cancel_btn' = FALSE
              /\ result_dir' = dir
              /\ status_info' = F("EFI built successfully: ", dir)
       ELSE UNCHANGED <<build_btn, cancel_btn, result_dir, status_info>>
    /\ UNCHANGED <<progress_bar, progress_info, log_text>>

\* build_finished(success, message): it reads self.build_thread, the thread
\* start_build created last, not the sender of the signal
build_finished(ev) ==
    /\ status' = ev.text
    /\ build_btn' = TRUE
    /\ cancel_btn' = FALSE
    /\ IF ev.success
       THEN LET dir == PathJoin(threads[build_thread].config.output_dir, "OpenCore-EFI") IN
              /\ result_dir' = dir
              /\ status_info' = F("EFI built successfully: ", dir)
       ELSE UNCHANGED <<result_dir, status_info>>
    /\ UNCHANGED <<progress_bar, progress_info, log_text>>

\* the GUI thread's event loop takes the oldest queued emission and runs its slot
deliver ==
    /\ queue # <<>>
    /\ queue' = Tail(queue)
    /\ LET ev == Head(queue) IN
         CASE ev.kind = "progress" -> update_progress(ev)
           [] ev.kind = "log"      -> log_build_message(ev)
           [] ev.kind = "finished" -> build_finished(ev)
    /\ UNCHANGED <<mainVars, acpiVars, kextVars, build_thread, threads>>
    /\ UNCHANGED <<reportVars, versionVars, smbiosVars>>

-----------------------------------------------------------------------------
(* Strings the rules search: a string is the sequence of its characters *)

UpperCase == <<"A", "B", "C", "D", "E", "F", "G", "H", "I", "J", "K", "L", "M",
               "N", "O", "P", "Q", "R", "S", "T", "U", "V", "W", "X", "Y", "Z">>

LowerCase == <<"a", "b", "c", "d", "e", "f", "g", "h", "i", "j", "k", "l", "m",
               "n", "o", "p", "q", "r", "s", "t", "u", "v", "w", "x", "y", "z">>

\* the lower-case letter of each upper-case letter
LowerTable ==
    [c \in {UpperCase[i] : i \in 1..Len(UpperCase)} |->
       LowerCase[CHOOSE i \in 1..Len(UpperCase) : UpperCase[i] = c]]

\* str.lower() on one character
LowerChar(c) == IF c \in DOMAIN LowerTable THEN LowerTable[c] ELSE c

\* str.lower()
Lower(s) == [i \in 1..Len(s) |-> LowerChar(s[i])]

\* Python's  needle in hay  for two strings
Contains(needle, hay) ==
    \E i \in 0..(Len(hay) - Len(needle)) :
        SubSeq(hay, i + 1, i + Len(needle)) = needle

Str_Empty == <<>>

Str_Laptop == <<"L", "a", "p", "t", "o", "p">>

Str_Notebook == <<"N", "o", "t", "e", "b", "o", "o", "k">>

Str_AMD == <<"A", "M", "D">>

Str_z390 == <<"z", "3", "9", "0">>

Str_z490 == <<"z", "4", "9", "0">>

Str_z590 == <<"z", "5", "9", "0">>

Str_z690 == <<"z", "6", "9", "0">>

Str_b360 == <<"b", "3", "6", "0">>

Str_b460 == <<"b", "4", "6", "0">>

Str_b560 == <<"b", "5", "6", "0">>

Str_b660 == <<"b", "6", "6", "0">>

Str_IntelCorei7 == <<"I", "n", "t", "e", "l", " ", "C", "o", "r", "e", " ", "i", "7">>

Str_AMDRyzen5 == <<"A", "M", "D", " ", "R", "y", "z", "e", "n", " ", "5">>

Str_RadeonRX5700 == <<"A", "M", "D", " ", "R", "a", "d", "e", "o", "n", " ", "R", "X", " ", "5", "7", "0", "0">>

Str_ASUSZ390E == <<"A", "S", "U", "S", " ", "R", "O", "G", " ", "S", "T", "R", "I", "X", " ", "Z", "3", "9", "0", "-", "E">>

Str_Z390 == <<"Z", "3", "9", "0">>

Str_model_LaptopX1 == <<"L", "a", "p", "t", "o", "p", " ", "X", "1">>

Str_model_laptop == <<"l", "a", "p", "t", "o", "p">>

Str_model_MyNotebook == <<"M", "y", " ", "N", "o", "t", "e", "b", "o", "o", "k">>

Str_model_DesktopB460 == <<"D", "e", "s", "k", "t", "o", "p", " ", "B", "4", "6", "0">>

Str_model_Tower == <<"T", "o", "w", "e", "r">>

-----------------------------------------------------------------------------
(* Hardware information *)

\* main_window.hardware_info is None, written <<>>, or the parsed report,
\* written <<d>> with d the dictionary: a function from its keys
NoInfo == <<>>

EmptyDict == [k \in {} |-> <<>>]

\* the report export_hardware_report writes in simulation mode
mock_report ==
    [cpu |-> [model |-> Str_IntelCorei7, cores |-> 8, threads |-> 16],
     gpu |-> [model |-> Str_RadeonRX5700, vram |-> "8GB"],
     ram |-> [size |-> "32GB", speed |-> "3200MHz"],
     motherboard |-> [model |-> Str_ASUSZ390E, chipset |-> Str_Z390],
     storage |-> <<[model |-> "Samsung 970 EVO", capacity |-> "1TB", type |-> "NVMe"]>>,
     network |-> [ethernet |-> "Intel I219-V", wifi |-> "Intel AX200"]]

\* the path it writes the report to
MockReportPath == "/tmp/hardware_report.json"

\* parsed reports a user can select: dictionaries whose attributes are strings
ReportDicts ==
    {EmptyDict,
     mock_report,
     [cpu |-> [model |-> Str_AMDRyzen5]],
     [cpu |-> [model |-> Str_IntelCorei7], model |-> Str_model_LaptopX1],
     [cpu |-> [model |-> Str_AMDRyzen5], model |-> Str_model_laptop],
     [model |-> Str_model_MyNotebook],
     [motherboard |-> [chipset |-> Str_Z390], model |-> Str_model_DesktopB460],
     [gpu |-> [model |-> Str_RadeonRX5700], model |-> Str_model_Tower]}

HardwareInfos == {NoInfo} \cup {<<d>> : d \in ReportDicts}

\* the truth value Python gives hardware_info (None and {} are false)
HasHardwareInfo(h) == h # NoInfo /\ DOMAIN h[1] # {}

\* hardware_info.get("model", "")
GetModel(hw) == IF "model" \in DOMAIN hw THEN hw["model"] ELSE Str_Empty

-----------------------------------------------------------------------------
(* ACPIConfigPage *)

\* the keys of patches_data, in the order the list shows them
PatchNames ==
    <<"FixHPET", "FixRTC", "SSDT-PLUG", "SSDT-AWAC", "SSDT-PNLF",
      "SSDT-EC-USBX", "SSDT-AWAC-DISABLE", "SSDT-USBX">>

PatchCatalog == {PatchNames[i] : i \in 1..Len(PatchNames)}

patches_data ==
    [n \in PatchCatalog |->
       CASE n = "FixHPET"           -> [description |-> "Fix HPET device", enabled |-> TRUE, priority |-> "High"]
         [] n = "FixRTC"            -> [description |-> "Fix RTC clock", enabled |-> TRUE, priority |-> "High"]
         [] n = "SSDT-PLUG"         -> [description |-> "CPU power management patch", enabled |-> TRUE, priority |-> "High"]
         [] n = "SSDT-AWAC"         -> [description |-> "Fix AWAC clock", enabled |-> FALSE, priority |-> "Medium"]
         [] n = "SSDT-PNLF"         -> [description |-> "Laptop brightness control", enabled |-> FALSE, priority |-> "Medium"]
         [] n = "SSDT-EC-USBX"      -> [description |-> "EC controller and USB power patch", enabled |-> TRUE, priority |-> "High"]
         [] n = "SSDT-AWAC-DISABLE" -> [description |-> "Disable AWAC clock", enabled |-> FALSE, priority |-> "Low"]
         [] n = "SSDT-USBX"         -> [description |-> "USB power management optimization", enabled |-> FALSE, priority |-> "Medium"]]

\* init_ui: every item's check state is its "enabled" entry
InitialPatchChecks == [n \in PatchCatalog |-> patches_data[n].enabled]

\* the patches every simulated or default recommendation starts from
BasicPatches == {"FixHPET", "FixRTC", "SSDT-PLUG", "SSDT-EC-USBX"}

\* the patches auto_detect_patches leaves as they are when not recommended
KeptPatches == {"FixHPET", "FixRTC", "SSDT-PLUG"}

\* the chipset keywords of the motherboard check
NewerChipsets ==
    {Str_z390, Str_z490, Str_z590, Str_z690, Str_b360, Str_b460, Str_b560, Str_b660}

\* the system type check: "Laptop" in model or "Notebook" in model.lower()
IsLaptop(hw) ==
    \/ Contains(Str_Laptop, GetModel(hw))
    \/ Contains(Str_Notebook, Lower(GetModel(hw)))

\* the motherboard type check
IsNewerBoard(hw) ==
    /\ "model" \in DOMAIN hw
    /\ LET model_str == Lower(hw["model"])
       IN  \E x \in NewerChipsets : Contains(x, model_str)

\* simulation mode with the laptop rule assigning the list instead of appending
SimulatedPatches_Overwrites(hw) ==
    IF IsLaptop(hw) THEN {"SSDT-PNLF"}
    ELSE BasicPatches \cup (IF IsNewerBoard(hw) THEN {"SSDT-AWAC"} ELSE {})

\* the recommendation of simulation mode
SimulatedPatches(hw) ==
    BasicPatches
      \cup (IF IsLaptop(hw) THEN {"SSDT-PNLF"} ELSE {})
      \cup (IF IsNewerBoard(hw) THEN {"SSDT-AWAC"} ELSE {})

\* the generic recommendation with one name dropped
DefaultPatches_Short == {"FixHPET", "FixRTC", "SSDT-PLUG"}

\* the recommendation when no hardware information is available
DefaultPatches == {"FixHPET", "FixRTC", "SSDT-PLUG", "SSDT-EC-USBX"}

\* what the call of the original ACPI Guru can do: raise (the module is not
\* importable or has no such method), return a list, or return something
\* list(set(...)) cannot take
GuruOutcomes ==
    {[kind |-> "raises", patches |-> {}],
     [kind |-> "invalid", patches |-> {}],
     [kind |-> "list", patches |-> {}],
     [kind |-> "list", patches |-> {"FixHPET", "SSDT-AWAC"}]}

\* the "Update UI" loop without its else branch: nothing is unchecked
PatchChecksAfter_NoUncheck(checks, rec) ==
    [n \in PatchCatalog |-> n \in rec \/ checks[n]]

\* the check states after the "Update UI" loop for the recommendation rec
PatchChecksAfter(checks, rec) ==
    [n \in PatchCatalog |->
       IF n \in rec THEN TRUE
       ELSE IF n \notin KeptPatches THEN FALSE
       ELSE checks[n]]

\* the result auto_detect_patches reports: how it ended, where the
\* recommendation came from, and the recommendation
DetectResult(h, guru) ==
    IF ~HasHardwareInfo(h)
    THEN [outcome |-> "ok", source |-> "default", recommended |-> DefaultPatches]
    ELSE CASE guru.kind = "raises" ->
                [outcome |-> "ok", source |-> "simulation", recommended |-> SimulatedPatches(h[1])]
           [] guru.kind = "list" ->
                [outcome |-> "ok", source |-> "guru", recommended |-> guru.patches]
           [] guru.kind = "invalid" ->
                [outcome |-> "failed", source |-> "guru", recommended |-> {}]

NoDetect == [outcome |-> "none", source |-> "none", recommended |-> {}]

\* auto_detect_patches, the slot of auto_detect_btn.clicked
auto_detect_patches(guru) ==
    /\ status' = T("Auto-detecting best ACPI patches...")
    /\ detect' = DetectResult(hardware_info, guru)
    /\ patches_checked' = IF detect'.outcome = "ok"
                          THEN PatchChecksAfter(patches_checked, detect'.recommended)
                          ELSE patches_checked
    /\ UNCHANGED <<mainVars, buildVars, kextVars>>
    /\ UNCHANGED <<filterVars, reportVars, versionVars, smbiosVars>>

\* the user clicks the check box of one patch
toggle_patch(n) ==
    /\ patches_checked' = [patches_checked EXCEPT ![n] = ~@]
    /\ UNCHANGED <<mainVars, buildVars, kextVars, status, detect>>
    /\ UNCHANGED <<filterVars, reportVars, versionVars, smbiosVars>>

\* select_all_patches if it also saved what it checked
select_all_patches_Saves ==
    /\ patches_checked' = [n \in PatchCatalog |-> TRUE]
    /\ status' = T("All ACPI patches selected")
    /\ selected_acpi_patches' =
         [i \in 1..Len(PatchNames) |->
            [name |-> PatchNames[i],
             description |-> patches_data[PatchNames[i]].description,
             priority |-> patches_data[PatchNames[i]].priority]]
    /\ UNCHANGED <<hardware_report_path, hardware_info, selected_macos_version,
                   selected_smbios_model, smbios_config, selected_kexts,
                   buildVars, kextVars, detect>>
    /\ UNCHANGED <<filterVars, reportVars, versionVars, smbiosVars>>

\* select_all_patches, the slot of select_all_btn.clicked
select_all_patches ==
    /\ patches_checked' = [n \in PatchCatalog |-> TRUE]
    /\ status' = T("All ACPI patches selected")
    /\ UNCHANGED <<mainVars, buildVars, kextVars, detect>>
    /\ UNCHANGED <<filterVars, reportVars, versionVars, smbiosVars>>

clear_all_patches ==
    /\ patches_checked' = [n \in PatchCatalog |-> FALSE]
    /\ status' = T("All ACPI patch selections cleared")
    /\ UNCHANGED <<mainVars, buildVars, kextVars, detect>>
    /\ UNCHANGED <<filterVars, reportVars, versionVars, smbiosVars>>

\* the list if apply_selection went through the items twice
SelectedPatches_Twice(checks) ==
    LET idx == SelectSeq([i \in 1..Len(PatchNames) |-> i],
                         LAMBDA i : checks[PatchNames[i]])
        once == [k \in 1..Len(idx) |->
                   [name |-> PatchNames[idx[k]],
                    description |-> patches_data[PatchNames[idx[k]]].description,
                    priority |-> patches_data[PatchNames[idx[k]]].priority]]
    IN once \o once

\* item.text(0) and item.text(1) of every list item, as the strings
\* filter_patches searches
PatchNameText ==
    [n \in PatchCatalog |->
       CASE n = "FixHPET" -> <<"F", "i", "x", "H", "P", "E", "T">>
         [] n = "FixRTC" -> <<"F", "i", "x", "R", "T", "C">>
         [] n = "SSDT-PLUG" -> <<"S", "S", "D", "T", "-", "P", "L", "U", "G">>
         [] n = "SSDT-AWAC" -> <<"S", "S", "D", "T", "-", "A", "W", "A", "C">>
         [] n = "SSDT-PNLF" -> <<"S", "S", "D", "T", "-", "P", "N", "L", "F">>
         [] n = "SSDT-EC-USBX" -> <<"S", "S", "D", "T", "-", "E", "C", "-", "U", "S", "B", "X">>
         [] n = "SSDT-AWAC-DISABLE" -> <<"S", "S", "D", "T", "-", "A", "W", "A", "C", "-", "D", "I", "S", "A", "B", "L", "E">>
         [] n = "SSDT-USBX" -> <<"S", "S", "D", "T", "-", "U", "S", "B", "X">>]

PatchDescriptionText ==
    [n \in PatchCatalog |->
       CASE n = "FixHPET" -> <<"F", "i", "x", " ", "H", "P", "E", "T", " ", "d", "e", "v", "i", "c", "e">>
         [] n = "FixRTC" -> <<"F", "i", "x", " ", "R", "T", "C", " ", "c", "l", "o", "c", "k">>
         [] n = "SSDT-PLUG" -> <<"C", "P", "U", " ", "p", "o", "w", "e", "r", " ", "m", "a", "n", "a", "g", "e", "m", "e", "n", "t", " ", "p", "a", "t", "c", "h">>
         [] n = "SSDT-AWAC" -> <<"F", "i", "x", " ", "A", "W", "A", "C", " ", "c", "l", "o", "c", "k">>
         [] n = "SSDT-PNLF" -> <<"L", "a", "p", "t", "o", "p", " ", "b", "r", "i", "g", "h", "t", "n", "e", "s", "s", " ", "c", "o", "n", "t", "r", "o", "l">>
         [] n = "SSDT-EC-USBX" -> <<"E", "C", " ", "c", "o", "n", "t", "r", "o", "l", "l", "e", "r", " ", "a", "n", "d", " ", "U", "S", "B", " ", "p", "o", "w", "e", "r", " ", "p", "a", "t", "c", "h">>
         [] n = "SSDT-AWAC-DISABLE" -> <<"D", "i", "s", "a", "b", "l", "e", " ", "A", "W", "A", "C", " ", "c", "l", "o", "c", "k">>
         [] n = "SSDT-USBX" -> <<"U", "S", "B", " ", "p", "o", "w", "e", "r", " ", "m", "a", "n", "a", "g", "e", "m", "e", "n", "t", " ", "o", "p", "t", "i", "m", "i", "z", "a", "t", "i", "o", "n">>]

\* the entries of the priority filter
Priorities == {"All", "High", "Medium", "Low"}

\* the texts the user types into the search box
Str_search_fix == <<"f", "i", "x">>

Str_search_Clock == <<"C", "l", "o", "c", "k">>

Str_search_usbx == <<"u", "s", "b", "x">>

SearchTexts == {Str_Empty, Str_search_fix, Str_search_Clock, Str_search_usbx}

\* patch_name in self.patches_data, for the lower-cased text of an item
InPatchesData(patch_name) == \E k \in PatchCatalog : PatchNameText[k] = patch_name

\* self.patches_data[patch_name]["priority"]
PriorityOf(patch_name) ==
    patches_data[CHOOSE k \in PatchCatalog : PatchNameText[k] = patch_name].priority

\* the hidden flag filter_patches gives every item
HiddenAfter(search, selected_priority) ==
    [n \in PatchCatalog |->
       LET patch_name == Lower(PatchNameText[n])
           patch_desc == Lower(PatchDescriptionText[n])
           matches_search == Contains(Lower(search), patch_name)
                               \/ Contains(Lower(search), patch_desc)
           matches_priority ==
               IF selected_priority = "All" THEN TRUE
               ELSE IF InPatchesData(patch_name)
               THEN PriorityOf(patch_name) = selected_priority
               ELSE FALSE
       IN ~(matches_search /\ matches_priority)]

\* the user edits the search box: filter_patches, the slot of
\* search_edit.textChanged
edit_search(text) ==
    /\ text # search_text
    /\ search_text' = text
    /\ hidden' = HiddenAfter(text, priority_filter)
    /\ UNCHANGED <<mainVars, buildVars, kextVars, status, patches_checked,
                   detect, priority_filter>>
    /\ UNCHANGED <<reportVars, versionVars, smbiosVars>>

\* the user picks a priority: filter_patches, the slot of
\* priority_filter.currentIndexChanged
pick_priority(priority) ==
    /\ priority # priority_filter
    /\ priority_filter' = priority
    /\ hidden' = HiddenAfter(search_text, priority)
    /\ UNCHANGED <<mainVars, buildVars, kextVars, status, patches_checked,
                   detect, search_text>>
    /\ UNCHANGED <<reportVars, versionVars, smbiosVars>>

\* the list apply_selection collects from the check states
SelectedPatches(checks) ==
    LET idx == SelectSeq([i \in 1..Len(PatchNames) |-> i],
                         LAMBDA i : checks[PatchNames[i]])
    IN [k \in 1..Len(idx) |->
          [name |-> PatchNames[idx[k]],
           description |-> patches_data[PatchNames[idx[k]]].description,
           priority |-> patches_data[PatchNames[idx[k]]].priority]]

\* ACPIConfigPage.apply_selection, the slot of apply_btn.clicked
apply_patch_selection ==
    /\ status' = T("Applying ACPI patch selections...")
    /\ selected_acpi_patches' = SelectedPatches(patches_checked)
    /\ UNCHANGED <<hardware_report_path, hardware_info, selected_macos_version,
                   selected_smbios_model, smbios_config, selected_kexts,
                   buildVars, acpiVars, kextVars>>
    /\ UNCHANGED <<reportVars, versionVars, smbiosVars>>

-----------------------------------------------------------------------------
(* KextConfigPage *)

\* the example kexts of init_ui, in list order
kexts ==
    <<[name |-> "Lilu.kext",          version |-> "1.6.7", description |-> "Core patching framework",   enabled |-> TRUE],
      [name |-> "VirtualSMC.kext",    version |-> "1.3.3", description |-> "SMC emulation",             enabled |-> TRUE],
      [name |-> "WhateverGreen.kext", version |-> "1.6.6", description |-> "Graphics patch",            enabled |-> TRUE],
      [name |-> "AppleALC.kext",      version |-> "1.8.8", description |-> "Audio driver",              enabled |-> TRUE],
      [name |-> "IntelMausi.kext",    version |-> "1.0.7", description |-> "Intel network driver",      enabled |-> FALSE],
      [name |-> "NVMeFix.kext",       version |-> "1.1.1", description |-> "NVMe storage optimization", enabled |-> FALSE]>>

KextCatalog == {kexts[i].name : i \in 1..Len(kexts)}

InitialKextChecks ==
    [n \in KextCatalog |-> \E i \in 1..Len(kexts) : kexts[i].name = n /\ kexts[i].enabled]

\* the recommendation of simulation mode and of the case without hardware info
RecommendedKexts == {"Lilu.kext", "VirtualSMC.kext", "WhateverGreen.kext", "AppleALC.kext"}

\* what the call of the original Kext Maestro can do (as for the ACPI Guru)
MaestroOutcomes ==
    {[kind |-> "raises", kexts |-> {}],
     [kind |-> "invalid", kexts |-> {}],
     [kind |-> "list", kexts |-> {"Lilu.kext", "IntelMausi.kext"}]}

\* the result of auto_select_kexts
KextDetectResult(h, maestro) ==
    IF ~HasHardwareInfo(h)
    THEN [outcome |-> "ok", source |-> "default", recommended |-> RecommendedKexts]
    ELSE CASE maestro.kind = "raises" ->
                [outcome |-> "ok", source |-> "simulation", recommended |-> RecommendedKexts]
           [] maestro.kind = "list" ->
                [outcome |-> "ok", source |-> "maestro", recommended |-> maestro.kexts]
           [] maestro.kind = "invalid" ->
                [outcome |-> "failed", source |-> "maestro", recommended |-> {}]

\* the loop without its else branch: nothing is unchecked
KextChecksAfter_NoUncheck(rec) == [n \in KextCatalog |-> n \in rec \/ kext_checked[n]]

\* the check states after the "Update UI" loop
KextChecksAfter(rec) == [n \in KextCatalog |-> n \in rec]

\* auto_select_kexts, the slot of auto_select_btn.clicked
auto_select_kexts(maestro) ==
    /\ status' = T("Auto-selecting best Kexts...")
    /\ kext_detect' = KextDetectResult(hardware_info, maestro)
    /\ kext_checked' = IF kext_detect'.outcome = "ok"
                       THEN KextChecksAfter(kext_detect'.recommended)
                       ELSE kext_checked
    /\ UNCHANGED <<mainVars, buildVars, acpiVars>>
    /\ UNCHANGED <<reportVars, versionVars, smbiosVars>>

\* the user clicks the check box of one kext
toggle_kext(n) ==
    /\ kext_checked' = [kext_checked EXCEPT ![n] = ~@]
    /\ UNCHANGED <<mainVars, buildVars, acpiVars, status, kext_detect>>
    /\ UNCHANGED <<reportVars, versionVars, smbiosVars>>

\* the list apply_selection collects from the check states
SelectedKexts(checks) ==
    LET sel == SelectSeq(kexts, LAMBDA k : checks[k.name])
    IN [i \in 1..Len(sel) |->
          [name |-> sel[i].name, version |-> sel[i].version,
           description |-> sel[i].description]]

\* KextConfigPage.apply_selection, the slot of apply_btn.clicked
apply_kext_selection ==
    /\ status' = T("Applying Kext selection...")
    /\ selected_kexts' = SelectedKexts(kext_checked)
    /\ UNCHANGED <<hardware_report_path, hardware_info, selected_macos_version,
                   selected_smbios_model, smbios_config, selected_acpi_patches,
                   buildVars, acpiVars, kextVars>>
    /\ UNCHANGED <<reportVars, versionVars, smbiosVars>>

-----------------------------------------------------------------------------
(* HardwareReportPage *)

\* d.get(key, 'Unknown')
GetOrUnknown(d, key) == IF key \in DOMAIN d THEN d[key] ELSE "Unknown"

\* one block of overview_text: its heading and the values formatted into it
Block(heading, values) == [heading |-> heading, values |-> values]

\* the "Storage Devices:" block: up to three devices, then the count of the rest
StorageBlock(storage_devices) ==
    Block("Storage Devices:",
          [i \in 1..(IF Len(storage_devices) > 3 THEN 3 ELSE Len(storage_devices)) |->
             <<GetOrUnknown(storage_devices[i], "model"),
               GetOrUnknown(storage_devices[i], "capacity"),
               GetOrUnknown(storage_devices[i], "type")>>]
            \o (IF Len(storage_devices) > 3
                THEN <<Len(storage_devices) - 3>> ELSE <<>>))

\* overview_text as update_hardware_overview builds it for a report whose
\* sections are dictionaries and whose storage section is a list
OverviewText(report_data) ==
    (IF "cpu" \in DOMAIN report_data
     THEN <<Block("CPU", <<GetOrUnknown(report_data["cpu"], "model"),
                           GetOrUnknown(report_data["cpu"], "cores"),
                           GetOrUnknown(report_data["cpu"], "threads")>>)>>
     ELSE <<>>)
    \o (IF "motherboard" \in DOMAIN report_data
        THEN <<Block("Motherboard", <<GetOrUnknown(report_data["motherboard"], "model"),
                                      GetOrUnknown(report_data["motherboard"], "chipset")>>)>>
        ELSE <<>>)
    \o (IF "gpu" \in DOMAIN report_data
        THEN <<Block("GPU", <<GetOrUnknown(report_data["gpu"], "model"),
                              GetOrUnknown(report_data["gpu"], "vram")>>)>>
        ELSE <<>>)
    \o (IF "ram" \in DOMAIN report_data
        THEN <<Block("RAM", <<GetOrUnknown(report_data["ram"], "size"),
                              GetOrUnknown(report_data["ram"], "speed")>>)>>
        ELSE <<>>)
    \o (IF "storage" \in DOMAIN report_data
        THEN <<StorageBlock(report_data["storage"])>>
        ELSE <<>>)
    \o (IF "network" \in DOMAIN report_data
        THEN <<Block("Network Devices:", <<GetOrUnknown(report_data["network"], "ethernet"),
                                           GetOrUnknown(report_data["network"], "wifi")>>)>>
        ELSE <<>>)

\* export_hardware_report, the slot of export_btn.clicked, where the
\* original export function cannot be imported: the mock report is written,
\* shown and stored
export_hardware_report ==
    /\ hardware_overview' = OverviewText(mock_report)
    /\ hardware_report_path' = MockReportPath
    /\ hardware_info' = <<mock_report>>
    /\ status' = F("Hardware report successfully exported to: ", MockReportPath)
    /\ UNCHANGED <<selected_macos_version, selected_smbios_model, smbios_config,
                   selected_acpi_patches, selected_kexts, buildVars, acpiVars,
                   kextVars, versionVars, smbiosVars, report_info>>

\* a file the user can pick in the file dialog: its path, its base name and
\* what json.load makes of it (parsed is <<>> where it raises JSONDecodeError)
File(path, name, parsed) == [path |-> path, name |-> name, parsed |-> parsed]

\* what the original validate_report can do: raise ImportError or
\* AttributeError (the module is not importable or has no such function),
\* reject the file or accept it
ValidatorOutcomes == {"raises", "rejects", "accepts"}

\* select_hardware_report, the slot of select_btn.clicked; file is <<>> where
\* the dialog is dismissed
select_hardware_report(file, validator) ==
    /\ IF file = <<>>
       THEN UNCHANGED <<status, report_info, hardware_report_path, hardware_info,
                        hardware_overview>>
       ELSE /\ report_info' = F("Selected: ", file[1].name)
            /\ IF validator = "rejects"
               THEN /\ status' = F("Selected hardware report: ", file[1].name)
                    /\ UNCHANGED <<hardware_report_path, hardware_info,
                                   hardware_overview>>
               ELSE IF file[1].parsed # <<>>
               THEN /\ hardware_report_path' = file[1].path
                    /\ hardware_info' = file[1].parsed
                    /\ hardware_overview' = OverviewText(file[1].parsed[1])
                    /\ status' = F("Selected hardware report: ", file[1].name)
               ELSE IF validator = "accepts"
               THEN \* the path is stored before json.load raises
                    /\ hardware_report_path' = file[1].path
                    /\ status' = F("Error: Validating hardware report failed: ",
                                   "Expecting value")
                    /\ UNCHANGED <<hardware_info, hardware_overview>>
               ELSE /\ status' = T("Warning: The selected file is not a valid JSON format")
                    /\ UNCHANGED <<hardware_report_path, hardware_info,
                                   hardware_overview>>
    /\ UNCHANGED <<selected_macos_version, selected_smbios_model, smbios_config,
                   selected_acpi_patches, selected_kexts, buildVars, acpiVars,
                   kextVars, versionVars, smbiosVars>>

\* HardwareReportPage.init_ui
InitReportPage ==
    /\ report_info = T("No hardware report selected")
    /\ hardware_overview = <<>>

-----------------------------------------------------------------------------
(* MacOSVersionPage *)

\* the keywords check_compatibility searches the model strings for
Str_Intel == <<"I", "n", "t", "e", "l">>

Str_IntelIris == <<"I", "n", "t", "e", "l", " ", "I", "r", "i", "s">>

Str_IntelUHD == <<"I", "n", "t", "e", "l", " ", "U", "H", "D">>

Str_IntelHD == <<"I", "n", "t", "e", "l", " ", "H", "D">>

Str_Radeon == <<"R", "a", "d", "e", "o", "n">>

Str_NVIDIA == <<"N", "V", "I", "D", "I", "A">>

Str_GTX == <<"G", "T", "X">>

Str_RTX == <<"R", "T", "X">>

Str_13th == <<"1", "3", "t", "h">>

Str_12th == <<"1", "2", "t", "h">>

Str_11th == <<"1", "1", "t", "h">>

Str_10th == <<"1", "0", "t", "h">>

Str_9th == <<"9", "t", "h">>

Str_8th == <<"8", "t", "h">>

Str_7th == <<"7", "t", "h">>

Str_6th == <<"6", "t", "h">>

\* model strings of the reports the compatibility check is run on
Str_cpu_X11thGen == <<"X", " ", "1", "1", "t", "h", " ", "G", "e", "n">>

Str_cpu_Intel11thGen == <<"I", "n", "t", "e", "l", " ", "C", "o", "r", "e", " ", "i", "7", " ", "1", "1", "t", "h", " ", "G", "e", "n">>

Str_cpu_Intel9thGen == <<"I", "n", "t", "e", "l", " ", "C", "o", "r", "e", " ", "i", "5", " ", "9", "t", "h", " ", "G", "e", "n">>

Str_cpu_Intel7thGen == <<"I", "n", "t", "e", "l", " ", "C", "o", "r", "e", " ", "i", "5", " ", "7", "t", "h", " ", "G", "e", "n">>

Str_gpu_VendorYRadeon == <<"V", "e", "n", "d", "o", "r", "Y", " ", "R", "a", "d", "e", "o", "n", " ", "R", "X", " ", "5", "7", "0", "0">>

Str_gpu_NVIDIAGTX == <<"N", "V", "I", "D", "I", "A", " ", "G", "T", "X", " ", "1", "0", "8", "0">>

Str_gpu_IntelUHDGTX == <<"I", "n", "t", "e", "l", " ", "U", "H", "D", " ", "6", "3", "0", " ", "+", " ", "G", "T", "X", " ", "1", "6", "5", "0">>

Str_gpu_RadeonRTX == <<"R", "a", "d", "e", "o", "n", " ", "P", "r", "o", " ", "/", " ", "R", "T", "X", " ", "2", "0", "6", "0">>

Str_gpu_Matrox == <<"M", "a", "t", "r", "o", "x", " ", "G", "2", "0", "0">>

\* parsed reports for the compatibility check: besides the exported report,
\* reports with and without a cpu or gpu section, with and without its model
CompatReports ==
    {mock_report,
     [cpu |-> [vendor |-> "A", model |-> Str_cpu_X11thGen],
      gpu |-> [model |-> Str_gpu_VendorYRadeon]],
     [cpu |-> [model |-> Str_cpu_Intel11thGen], gpu |-> [model |-> Str_gpu_VendorYRadeon]],
     [cpu |-> [model |-> Str_cpu_Intel11thGen], gpu |-> [model |-> Str_gpu_NVIDIAGTX]],
     [cpu |-> [model |-> Str_cpu_Intel9thGen], gpu |-> [model |-> Str_gpu_IntelUHDGTX]],
     [cpu |-> [model |-> Str_cpu_Intel7thGen], gpu |-> [model |-> Str_gpu_Matrox]],
     [cpu |-> [model |-> Str_AMDRyzen5], gpu |-> [model |-> Str_gpu_RadeonRTX]],
     [cpu |-> [cores |-> 8], gpu |-> [vram |-> "8GB"]],
     [gpu |-> [model |-> Str_gpu_NVIDIAGTX]]}

CompatInfos == {NoInfo, <<EmptyDict>>} \cup {<<d>> : d \in CompatReports}

\* the keys of version_data, in the order of the version list
VersionNames ==
    <<"macOS Sonoma (14)", "macOS Ventura (13)", "macOS Monterey (12)",
      "macOS Big Sur (11)", "macOS Catalina (10.15)">>

VersionList == {VersionNames[i] : i \in 1..Len(VersionNames)}

version_data ==
    [v \in VersionList |->
       CASE v = "macOS Sonoma (14)"      -> [compatibility |-> "Recommended for newer hardware", color |-> "#3498db"]
         [] v = "macOS Ventura (13)"     -> [compatibility |-> "Widely compatible", color |-> "#27ae60"]
         [] v = "macOS Monterey (12)"    -> [compatibility |-> "Good stability", color |-> "#f39c12"]
         [] v = "macOS Big Sur (11)"     -> [compatibility |-> "Supports older hardware", color |-> "#e67e22"]
         [] v = "macOS Catalina (10.15)" -> [compatibility |-> "Supports legacy hardware", color |-> "#e74c3c"]]

\* one line of result_text: the part of the report it belongs to, the model
\* string formatted into it (Str_Empty when none) and its fixed text
Line(kind, model, text) == [kind |-> kind, model |-> model, text |-> text]

\* any(x in s for x in keywords)
ContainsAny(keywords, s) == \E x \in keywords : Contains(x, s)

\* "<section>" in hardware_info and "model" in hardware_info["<section>"]
HasModel(hw, section) ==
    /\ section \in DOMAIN hw
    /\ "model" \in DOMAIN hw[section]

\* the lines of the "CPU compatibility" block
CpuLines(hw) ==
    IF HasModel(hw, "cpu")
    THEN LET cpu_model == hw["cpu"]["model"] IN
           IF Contains(Str_Intel, cpu_model)
           THEN <<Line("cpu", cpu_model, "Compatible"),
                  Line("tip", Str_Empty, "Ensure Hyper-Threading is enabled")>>
           ELSE IF Contains(Str_AMD, cpu_model)
           THEN <<Line("cpu", cpu_model, "Requires additional patches"),
                  Line("tip", Str_Empty, "SSDT-PLUG patch is required")>>
           ELSE <<Line("cpu", cpu_model, "Compatibility unknown")>>
    ELSE <<>>

\* the "GPU compatibility" block if the NVIDIA / GTX / RTX keywords were tested
\* before the others
GpuLines_CappedFirst(hw) ==
    IF HasModel(hw, "gpu")
    THEN LET gpu_model == hw["gpu"]["model"] IN
           IF ContainsAny({Str_NVIDIA, Str_GTX, Str_RTX}, gpu_model)
           THEN <<Line("gpu", gpu_model, "Limited support in some versions"),
                  Line("tip", Str_Empty, "Only supported up to macOS Mojave 10.14.6")>>
           ELSE IF ContainsAny({Str_IntelIris, Str_IntelUHD, Str_IntelHD}, gpu_model)
           THEN <<Line("gpu", gpu_model, "Native support")>>
           ELSE IF ContainsAny({Str_AMD, Str_Radeon}, gpu_model)
           THEN <<Line("gpu", gpu_model, "Native support")>>
           ELSE <<Line("gpu", gpu_model, "Compatibility unknown")>>
    ELSE <<>>

\* the lines of the "GPU compatibility" block
GpuLines(hw) ==
    IF HasModel(hw, "gpu")
    THEN LET gpu_model == hw["gpu"]["model"] IN
           IF ContainsAny({Str_IntelIris, Str_IntelUHD, Str_IntelHD}, gpu_model)
           THEN <<Line("gpu", gpu_model, "Native support")>>
           ELSE IF ContainsAny({Str_AMD, Str_Radeon}, gpu_model)
           THEN <<Line("gpu", gpu_model, "Native support")>>
           ELSE IF ContainsAny({Str_NVIDIA, Str_GTX, Str_RTX}, gpu_model)
           THEN <<Line("gpu", gpu_model, "Limited support in some versions"),
                  Line("tip", Str_Empty, "Only supported up to macOS Mojave 10.14.6")>>
           ELSE <<Line("gpu", gpu_model, "Compatibility unknown")>>
    ELSE <<>>

\* the "Version recommendation" block: the text after "Overall
\* recommendation: " and the border colour of the style sheet set with it
Overall(hw) ==
    IF HasModel(hw, "cpu")
    THEN LET cpu_model == hw["cpu"]["model"] IN
           IF Contains(Str_Intel, cpu_model)
                /\ ContainsAny({Str_13th, Str_12th, Str_11th}, cpu_model)
           THEN [text |-> "Your CPU is relatively new, you can choose macOS Sonoma or Ventura",
                 style |-> "#27ae60"]
           ELSE IF Contains(Str_Intel, cpu_model)
                     /\ ContainsAny({Str_10th, Str_9th, Str_8th}, cpu_model)
           THEN [text |-> "Your CPU is suitable for macOS Ventura or Monterey",
                 style |-> "#27ae60"]
           ELSE IF Contains(Str_Intel, cpu_model)
                     /\ ContainsAny({Str_7th, Str_6th}, cpu_model)
           THEN [text |-> "Recommended to use macOS Monterey or Big Sur",
                 style |-> "#f39c12"]
           ELSE [text |-> "Your CPU may be older, it is recommended to use an older version of macOS",
                 style |-> "#e74c3c"]
    ELSE [text |-> "Cannot determine the best version based on CPU, please refer to other hardware information",
          style |-> "#6c757d"]

\* result_text if the GPU verdict were left out for the newest version
ResultText_VersionAware(hw, selected_version) ==
    <<Line("header", Str_Empty, selected_version)>>
      \o CpuLines(hw)
      \o (IF selected_version = VersionNames[1] THEN <<>> ELSE GpuLines(hw))
      \o <<Line("overall", Str_Empty, Overall(hw).text)>>

\* result_text if the GPU block were written before the CPU block
ResultText_GpuFirst(hw, selected_version) ==
    <<Line("header", Str_Empty, selected_version)>>
      \o GpuLines(hw) \o CpuLines(hw)
      \o <<Line("overall", Str_Empty, Overall(hw).text)>>

\* result_text as check_compatibility builds it for the selected version
ResultText(hw, selected_version) ==
    <<Line("header", Str_Empty, selected_version)>>
      \o CpuLines(hw) \o GpuLines(hw)
      \o <<Line("overall", Str_Empty, Overall(hw).text)>>

\* what one compatibility check shows: the text and the style of the result area
Shown(text, style) == [text |-> text, style |-> style]

\* evaluations while it observes the pair key, and while it observes nothing:
\* shown is what the first check of the pair showed, repeated tells that the
\* pair was checked again after other operations changed what the window shows
Observing(key) == [key |-> key, shown |-> <<>>, repeated |-> FALSE]

NotObserving == Observing(<<>>)

\* the most lines the result area holds before it is replaced
MaxShown == 8

\* check_compatibility if it added the new result to the result area without
\* clearing it, up to MaxShown lines
check_compatibility_Appends ==
    /\ IF ~HasHardwareInfo(hardware_info)
       THEN /\ compatibility_result' = compatibility_result
            /\ status' = T("Please select or export a hardware report first")
            /\ UNCHANGED <<compatibility_style, evaluations>>
       ELSE LET hw == hardware_info[1]
                key == <<hardware_info, version_text>> IN
              /\ compatibility_result' =
                   IF Len(compatibility_result) < MaxShown
                   THEN compatibility_result \o ResultText(hw, version_text)
                   ELSE ResultText(hw, version_text)
              /\ compatibility_style' = Overall(hw).style
              /\ status' = T("Compatibility check completed")
              /\ evaluations' =
                   IF key # evaluations.key THEN evaluations
                   ELSE IF evaluations.shown = <<>>
                   THEN [evaluations EXCEPT !.shown =
                           <<Shown(compatibility_result', compatibility_style')>>]
                   ELSE IF \/ status # T("Compatibility check completed")
                           \/ <<Shown(compatibility_result, compatibility_style)>>
                                 # evaluations.shown
                   THEN [evaluations EXCEPT !.repeated = TRUE]
                   ELSE evaluations
    /\ UNCHANGED <<mainVars, buildVars, acpiVars, kextVars, smbiosVars,
                   reportVars, version_text, recommend_label>>

\* check_compatibility, the slot of check_compatibility_btn.clicked
check_compatibility ==
    /\ IF ~HasHardwareInfo(hardware_info)
       THEN /\ compatibility_result' = <<>>
            /\ status' = T("Please select or export a hardware report first")
            /\ UNCHANGED <<compatibility_style, evaluations>>
       ELSE LET hw == hardware_info[1]
                key == <<hardware_info, version_text>> IN
              /\ compatibility_result' = ResultText(hw, version_text)
              /\ compatibility_style' = Overall(hw).style
              /\ status' = T("Compatibility check completed")
              /\ evaluations' =
                   IF key # evaluations.key THEN evaluations
                   ELSE IF evaluations.shown = <<>>
                   THEN [evaluations EXCEPT !.shown =
                           <<Shown(compatibility_result', compatibility_style')>>]
                   ELSE IF \/ status # T("Compatibility check completed")
                           \/ <<Shown(compatibility_result, compatibility_style)>>
                                 # evaluations.shown
                   THEN [evaluations EXCEPT !.repeated = TRUE]
                   ELSE evaluations
    /\ UNCHANGED <<mainVars, buildVars, acpiVars, kextVars, smbiosVars,
                   reportVars, version_text, recommend_label>>

\* on_version_changed, the slot of version_list.currentIndexChanged: the
\* user picks another version in the list
on_version_changed(v) ==
    /\ v # version_text
    /\ version_text' = v
    /\ recommend_label' = F("Recommendation: ", version_data[v].compatibility)
    /\ UNCHANGED <<mainVars, buildVars, acpiVars, kextVars, smbiosVars,
                   reportVars, status, compatibility_result,
                   compatibility_style, evaluations>>

\* the line of the result area confirm_selection quotes
OverallLine(text) ==
    LET found == SelectSeq(text, LAMBDA l : l.kind = "overall")
    IN  IF found = <<>> THEN "" ELSE found[1].text

\* confirm_selection, the slot of confirm_btn.clicked; the main window's
\* status labels (update_main_status) are functions of its fields
confirm_selection ==
    /\ selected_macos_version' = version_text
    /\ status' = F("Selected: ",
                   <<version_text,
                     IF compatibility_result # <<>>
                     THEN OverallLine(compatibility_result)
                     ELSE "Tip: You can use the 'Check Hardware Compatibility' button for more detailed compatibility information">>)
    /\ UNCHANGED <<hardware_report_path, hardware_info, selected_smbios_model,
                   smbios_config, selected_acpi_patches, selected_kexts,
                   buildVars, acpiVars, kextVars, versionVars, smbiosVars,
                   reportVars>>

\* MacOSVersionPage.init_ui: the first version is the current one
InitVersionPage ==
    /\ version_text = VersionNames[1]
    /\ recommend_label = F("Recommendation: ", version_data[VersionNames[1]].compatibility)
    /\ compatibility_result = <<>>
    /\ compatibility_style = "#dee2e6"

-----------------------------------------------------------------------------
(* SMBIOSConfigPage *)

\* the example models of the model list, in list order
model_list ==
    <<"MacBookPro16,1", "MacBookPro16,4", "Macmini9,1", "iMac20,1", "MacPro7,1">>

ModelNames == {model_list[i] : i \in 1..Len(model_list)}

\* the texts init_ui puts into the four input fields
Str_default_serial == <<"M", "L", "X", "X", "X", "X", "X", "X", "X", "X", "X", "X">>

Str_default_uuid == <<"X", "X", "X", "X", "X", "X", "X", "X", "-", "X", "X", "X", "X", "-", "X", "X", "X", "X", "-", "X", "X", "X", "X", "-", "X", "X", "X", "X", "X", "X", "X", "X", "X", "X", "X", "X">>

Str_default_board == <<"C", "X", "X", "X", "X", "X", "X", "X", "X", "X", "X">>

Str_default_mlb == <<"X", "X", "X", "X", "X", "X", "X", "X", "X", "X", "X", "X", "X", "X", "X", "X", "X", "X", "X", "X">>

\* the labels of the input fields, in the order generate_new_serial sets them
FieldLabels == <<"Serial Number:", "UUID:", "Board Serial Number:", "MLB:">>

FieldSet == {FieldLabels[i] : i \in 1..Len(FieldLabels)}

fields ==
    [l \in FieldSet |->
       CASE l = "Serial Number:"       -> Str_default_serial
         [] l = "UUID:"                -> Str_default_uuid
         [] l = "Board Serial Number:" -> Str_default_board
         [] l = "MLB:"                 -> Str_default_mlb]

Digits == <<"0", "1", "2", "3", "4", "5", "6", "7", "8", "9">>

\* string.ascii_uppercase + string.digits
chars == UpperCase \o Digits

\* the states of Python's global random generator the model draws from
Seeds == {0, 1, 2}

\* random.choice(chars) at the k-th draw of a generator in state seed
Choice(seed, k) == chars[((seed * 7 + k * (2 * seed + 1)) % Len(chars)) + 1]

\* random_str(length), called after drawn draws have been made
random_str(length, seed, drawn) == [i \in 1..length |-> Choice(seed, drawn + i)]

\* the "Simulate generation" block if the serial number were not prefixed
Simulated_NoPrefix(seed) ==
    [l \in FieldSet |->
       CASE l = "Serial Number:" -> random_str(11, seed, 0)
         [] l = "UUID:" ->
               random_str(8, seed, 11) \o <<"-">> \o random_str(4, seed, 19) \o <<"-">>
                 \o random_str(4, seed, 23) \o <<"-">> \o random_str(4, seed, 27)
                 \o <<"-">> \o random_str(12, seed, 31)
         [] l = "Board Serial Number:" -> <<"C">> \o random_str(11, seed, 43)
         [] l = "MLB:" -> random_str(20, seed, 54)]

\* the "Simulate generation" block
Simulated(seed) ==
    [l \in FieldSet |->
       CASE l = "Serial Number:" -> <<"C">> \o random_str(11, seed, 0)
         [] l = "UUID:" ->
               random_str(8, seed, 11) \o <<"-">> \o random_str(4, seed, 19) \o <<"-">>
                 \o random_str(4, seed, 23) \o <<"-">> \o random_str(4, seed, 27)
                 \o <<"-">> \o random_str(12, seed, 31)
         [] l = "Board Serial Number:" -> <<"C">> \o random_str(11, seed, 43)
         [] l = "MLB:" -> random_str(20, seed, 54)]

\* the values of the "Simulate generation" block in each state of the generator
Generated == [seed \in Seeds |-> Simulated(seed)]

\* the key of smbios_data read for each field
DataKey ==
    [l \in FieldSet |->
       CASE l = "Serial Number:"       -> "SerialNumber"
         [] l = "UUID:"                -> "UUID"
         [] l = "Board Serial Number:" -> "BoardSerialNumber"
         [] l = "MLB:"                 -> "MLB"]

\* a value of smbios_data that is not a str: setText raises TypeError on it
NotAString == <<"<not a str>">>

Str_ext_serial == <<"C", "0", "2", "Z", "K", "1", "A", "B", "M", "D", "6", "T">>

Str_ext_uuid == <<"0", "F", "3", "B", "8", "C", "2", "A", "-", "1", "D", "4", "E", "-", "4", "A", "6", "B", "-", "9", "C", "7", "D", "-", "2", "E", "5", "F", "8", "A", "1", "B", "3", "C", "4", "D">>

Str_ext_board == <<"C", "0", "2", "9", "4", "8", "3", "0", "4", "G", "U", "J", "G", "3", "6", "J", "C">>

Str_ext_mlb == <<"C", "0", "2", "9", "4", "8", "3", "0", "4", "G", "U", "J", "G", "3", "6", "J", "C">>

\* what the call of the original SMBIOS generator can do: raise (the module
\* is not importable, or anything else goes wrong), or return smbios_data: a
\* dictionary with all, some or none of the four keys, or with a value that
\* is not a str
SmbiosOutcomes ==
    {[kind |-> "raises", data |-> EmptyDict],
     [kind |-> "dict", data |-> [SerialNumber |-> Str_ext_serial, UUID |-> Str_ext_uuid,
                                 BoardSerialNumber |-> Str_ext_board, MLB |-> Str_ext_mlb]],
     [kind |-> "dict", data |-> [MLB |-> Str_ext_mlb]],
     [kind |-> "dict", data |-> [SerialNumber |-> Str_ext_serial, UUID |-> NotAString,
                                 BoardSerialNumber |-> Str_ext_board, MLB |-> Str_ext_mlb]]}

\* smbios_data.get(key, "")
Get(data, key) == IF key \in DOMAIN data THEN data[key] ELSE Str_Empty

\* new_serial, new_uuid, new_board and new_mlb
NewValues(smbios_gen, seed) ==
    IF smbios_gen.kind = "raises" THEN Generated[seed]
    ELSE [l \in FieldSet |-> Get(smbios_gen.data, DataKey[l])]

\* the "Update UI" block: setText field by field, in order, up to the first
\* value setText raises on
FieldsAfter(old, new) ==
    [l \in FieldSet |->
       LET i == CHOOSE j \in 1..Len(FieldLabels) : FieldLabels[j] = l IN
         IF \E j \in 1..i : new[FieldLabels[j]] = NotAString
         THEN old[l] ELSE new[l]]

\* generate_new_serial, the slot of generate_btn.clicked
generate_new_serial(smbios_gen, seed) ==
    /\ status' = T("Generating new serial number...")
    /\ field_inputs' = FieldsAfter(field_inputs, NewValues(smbios_gen, seed))
    /\ synthesized' = IF smbios_gen.kind = "raises"
                      THEN <<[model |-> model_text, values |-> field_inputs']>>
                      ELSE synthesized
    /\ UNCHANGED <<mainVars, buildVars, acpiVars, kextVars, versionVars,
                   reportVars, model_text>>

\* the user picks another model in the model list
select_model(m) ==
    /\ m # model_text
    /\ model_text' = m
    /\ UNCHANGED <<mainVars, buildVars, acpiVars, kextVars, versionVars,
                   reportVars, status, field_inputs, synthesized>>

\* the dictionary confirm_settings saves
SmbiosConfig(selected_model, inputs) ==
    <<[model |-> selected_model,
       serial |-> inputs["Serial Number:"],
       uuid |-> inputs["UUID:"],
       board_serial |-> inputs["Board Serial Number:"],
       mlb |-> inputs["MLB:"]]>>

\* confirm_settings if it updated the saved dictionary in place: a running
\* thread handed that dictionary sees the new settings
confirm_settings_InPlace ==
    /\ status' = F("Selected SMBIOS model: ", model_text)
    /\ selected_smbios_model' = model_text
    /\ smbios_config' = SmbiosConfig(model_text, field_inputs)
    /\ threads' = [t \in 1..Len(threads) |->
                     [threads[t] EXCEPT !.config.smbios_config =
                                           SmbiosConfig(model_text, field_inputs)]]
    /\ UNCHANGED <<hardware_report_path, hardware_info, selected_macos_version,
                   selected_acpi_patches, selected_kexts, result_dir, build_btn,
                   cancel_btn, progress_bar, progress_info, log_text,
                   status_info, build_thread, queue, acpiVars, kextVars,
                   versionVars, smbiosVars, reportVars>>

\* confirm_settings, the slot of confirm_btn.clicked
confirm_settings ==
    /\ status' = F("Selected SMBIOS model: ", model_text)
    /\ selected_smbios_model' = model_text
    /\ smbios_config' = SmbiosConfig(model_text, field_inputs)
    /\ UNCHANGED <<hardware_report_path, hardware_info, selected_macos_version,
                   selected_acpi_patches, selected_kexts,
                   buildVars, acpiVars, kextVars, versionVars, smbiosVars,
                   reportVars>>

\* SMBIOSConfigPage.init_ui: the first model is the current one
InitSmbiosPage ==
    /\ model_text = model_list[1]
    /\ field_inputs = fields
    /\ synthesized = <<>>

-----------------------------------------------------------------------------
(* The program after construction *)

\* OpCoreSimplifyGUI.__init__
InitMainWindow ==
    /\ hardware_report_path = None
    /\ hardware_info = NoInfo
    /\ selected_macos_version = None
    /\ selected_smbios_model = None
    /\ smbios_config = <<>>
    /\ selected_acpi_patches = <<>>
    /\ selected_kexts = <<>>
    /\ result_dir = NoDir
    /\ status = T("Ready")

\* BuildPage.init_ui
InitBuildPage ==
    /\ build_btn = TRUE
    /\ cancel_btn = FALSE
    /\ progress_bar = 0
    /\ progress_info = T("Ready to build...")
    /\ log_text = <<>>
    /\ status_info = T("Please ensure all necessary configurations are completed before starting the build.")
    /\ build_thread = 0
    /\ threads = <<>>
    /\ queue = <<>>

\* ACPIConfigPage.init_ui
InitAcpiPage ==
    /\ patches_checked = InitialPatchChecks
    /\ detect = NoDetect
    /\ search_text = Str_Empty
    /\ priority_filter = "All"
    /\ hidden = [n \in PatchCatalog |-> FALSE]

\* KextConfigPage.init_ui
InitKextPage ==
    /\ kext_checked = InitialKextChecks
    /\ kext_detect = NoDetect

\* the SMBIOS configuration confirm_settings saves for a model with the fields
\* as init_ui fills them
DefaultSmbiosConfig(model) == SmbiosConfig(model, fields)

-----------------------------------------------------------------------------
(* The build page: the main window's fields as the other pages can have left *)
(* them, then any interleaving of clicks, thread steps and event delivery    *)

InitBuild ==
    /\ \/ hardware_report_path = None /\ hardware_info = NoInfo
       \/ hardware_report_path = MockReportPath /\ hardware_info = <<mock_report>>
    /\ selected_macos_version \in {None, "macOS Sonoma (14)"}
    /\ \/ selected_smbios_model = None /\ smbios_config = <<>>
       \/ /\ selected_smbios_model = "MacBookPro16,1"
          /\ smbios_config = DefaultSmbiosConfig("MacBookPro16,1")
    /\ selected_acpi_patches = <<>>
    /\ selected_kexts = <<>>
    /\ result_dir = NoDir
    /\ status = T("Ready")
    /\ InitBuildPage
    /\ InitAcpiPage
    /\ InitKextPage
    /\ InitVersionPage
    /\ InitSmbiosPage
    /\ InitReportPage
    /\ evaluations = NotObserving

NextBuild ==
    \/ \E d \in DirInputs : start_build(d)
    \/ cancel_build
    \/ deliver
    \/ \E t \in 1..MaxRuns : run_emit(t)
    \/ \E t \in 1..MaxRuns : \E e \in Errors : run_raise(t, e)
    \/ \E t \in 1..MaxRuns : run_except(t)
    \/ \E t \in 1..MaxRuns : run_return(t)

SpecBuild == InitBuild /\ [][NextBuild]_vars

\* a running thread is scheduled again and again, and the GUI thread's event
\* loop keeps taking queued emissions out; clicks and exceptions may or may
\* not happen
Scheduling ==
    /\ WF_vars(deliver)
    /\ \A t \in 1..MaxRuns : WF_vars(run_emit(t) \/ run_except(t) \/ run_return(t))

SpecBuildLive == SpecBuild /\ Scheduling

-----------------------------------------------------------------------------
(* The ACPI page: a hardware report as selected, then any sequence of clicks *)

InitPatch ==
    /\ hardware_info \in HardwareInfos
    /\ hardware_report_path = IF hardware_info = NoInfo THEN None ELSE MockReportPath
    /\ selected_macos_version = None
    /\ selected_smbios_model = None
    /\ smbios_config = <<>>
    /\ selected_acpi_patches = <<>>
    /\ selected_kexts = <<>>
    /\ result_dir = NoDir
    /\ status = T("Ready")
    /\ InitBuildPage
    /\ InitAcpiPage
    /\ InitKextPage
    /\ InitVersionPage
    /\ InitSmbiosPage
    /\ InitReportPage
    /\ evaluations = NotObserving

NextPatch ==
    \/ \E g \in GuruOutcomes : auto_detect_patches(g)
    \/ \E n \in PatchCatalog : toggle_patch(n)
    \/ select_all_patches
    \/ clear_all_patches

SpecPatch == InitPatch /\ [][NextPatch]_vars

-----------------------------------------------------------------------------
(* The kext page *)

InitKext ==
    /\ hardware_info \in {NoInfo, <<EmptyDict>>, <<mock_report>>}
    /\ hardware_report_path = IF hardware_info = NoInfo THEN None ELSE MockReportPath
    /\ selected_macos_version = None
    /\ selected_smbios_model = None
    /\ smbios_config = <<>>
    /\ selected_acpi_patches = <<>>
    /\ selected_kexts = <<>>
    /\ result_dir = NoDir
    /\ status = T("Ready")
    /\ InitBuildPage
    /\ InitAcpiPage
    /\ InitKextPage
    /\ InitVersionPage
    /\ InitSmbiosPage
    /\ InitReportPage
    /\ evaluations = NotObserving

NextKext ==
    \/ \E m \in MaestroOutcomes : auto_select_kexts(m)
    \/ \E n \in KextCatalog : toggle_kext(n)
    \/ apply_kext_selection

SpecKext == InitKext /\ [][NextKext]_vars

-----------------------------------------------------------------------------
(* The ACPI page and the kext page together, with their saved selections *)

\* the patches and the kexts whose check boxes the user clicks one by one
ClickedPatches == {"FixRTC", "SSDT-AWAC"}

ClickedKexts == {"NVMeFix.kext"}

\* what the original ACPI Guru and Kext Maestro return here: nothing usable,
\* or a list that also names something the lists do not show
GuruLists ==
    {[kind |-> "raises", patches |-> {}],
     [kind |-> "list", patches |-> {"FixHPET", "SSDT-AWAC", "SSDT-XOSI"}]}

MaestroLists ==
    {[kind |-> "raises", kexts |-> {}],
     [kind |-> "list", kexts |-> {"Lilu.kext", "IntelMausi.kext", "USBInjectAll.kext"}]}

InitSelect ==
    /\ \/ hardware_report_path = None /\ hardware_info = NoInfo
       \/ hardware_report_path = MockReportPath /\ hardware_info = <<mock_report>>
    /\ selected_macos_version = None
    /\ selected_smbios_model = None
    /\ smbios_config = <<>>
    /\ selected_acpi_patches = <<>>
    /\ selected_kexts = <<>>
    /\ result_dir = NoDir
    /\ status = T("Ready")
    /\ InitBuildPage
    /\ InitAcpiPage
    /\ InitKextPage
    /\ InitVersionPage
    /\ InitSmbiosPage
    /\ InitReportPage
    /\ evaluations = NotObserving

NextSelect ==
    \/ \E g \in GuruLists : auto_detect_patches(g)
    \/ \E n \in ClickedPatches : toggle_patch(n)
    \/ select_all_patches
    \/ clear_all_patches
    \/ apply_patch_selection
    \/ \E m \in MaestroLists : auto_select_kexts(m)
    \/ \E n \in ClickedKexts : toggle_kext(n)
    \/ apply_kext_selection

SpecSelect == InitSelect /\ [][NextSelect]_vars

-----------------------------------------------------------------------------
(* The ACPI page: the list, its search box and its priority filter *)

InitFilter ==
    /\ InitMainWindow
    /\ InitBuildPage
    /\ InitAcpiPage
    /\ InitKextPage
    /\ InitVersionPage
    /\ InitSmbiosPage
    /\ InitReportPage
    /\ evaluations = NotObserving

NextFilter ==
    \/ \E text \in SearchTexts : edit_search(text)
    \/ \E priority \in Priorities : pick_priority(priority)
    \/ \E n \in ClickedPatches : toggle_patch(n)
    \/ select_all_patches
    \/ clear_all_patches

SpecFilter == InitFilter /\ [][NextFilter]_vars

-----------------------------------------------------------------------------
(* The version page: a hardware report as selected, then any sequence of     *)
(* version choices, compatibility checks and confirmations                   *)

InitCompat ==
    /\ hardware_info \in CompatInfos
    /\ hardware_report_path = IF hardware_info = NoInfo THEN None ELSE MockReportPath
    /\ selected_macos_version = None
    /\ selected_smbios_model = None
    /\ smbios_config = <<>>
    /\ selected_acpi_patches = <<>>
    /\ selected_kexts = <<>>
    /\ result_dir = NoDir
    /\ status = T("Ready")
    /\ InitBuildPage
    /\ InitAcpiPage
    /\ InitKextPage
    /\ InitVersionPage
    /\ InitSmbiosPage
    /\ report_info = T("No hardware report selected")
    /\ hardware_overview = IF hardware_info = NoInfo THEN <<>>
                           ELSE OverviewText(hardware_info[1])
    /\ evaluations = NotObserving

NextCompat ==
    \/ check_compatibility
    \/ \E v \in VersionList : on_version_changed(v)
    \/ confirm_selection

SpecCompat == InitCompat /\ [][NextCompat]_vars

-----------------------------------------------------------------------------
(* The report page and the version page together *)

\* the files the user picks in the file dialog
ReportFiles ==
    {File("/home/user/notes.json", "notes.json", <<>>),
     File("/home/user/desktop.json", "desktop.json",
          <<[cpu |-> [model |-> Str_cpu_Intel11thGen],
             gpu |-> [model |-> Str_gpu_NVIDIAGTX]]>>),
     File("/home/user/old.json", "old.json",
          <<[cpu |-> [model |-> Str_cpu_Intel7thGen],
             gpu |-> [model |-> Str_gpu_Matrox]]>>)}

\* how many of the versions of the list the user picks from
MaxPicked == 2

\* the versions the user picks in the version list
PickedVersions == {VersionNames[i] : i \in 1..MaxPicked}

\* the pairs of hardware information and version whose checks are observed
ObservedKeys ==
    {<<f.parsed, v>> : f \in {g \in ReportFiles : g.parsed # <<>>},
                       v \in PickedVersions}
    \cup {<<<<mock_report>>, VersionNames[1]>>}

InitPurity ==
    /\ InitMainWindow
    /\ InitBuildPage
    /\ InitAcpiPage
    /\ InitKextPage
    /\ InitVersionPage
    /\ InitSmbiosPage
    /\ InitReportPage
    /\ evaluations \in {Observing(key) : key \in ObservedKeys}

NextPurity ==
    \/ export_hardware_report
    \/ \E file \in {<<>>} \cup {<<f>> : f \in ReportFiles} :
         select_hardware_report(file, "raises")
    \/ \E v \in PickedVersions : on_version_changed(v)
    \/ check_compatibility
    \/ confirm_selection

SpecPurity == InitPurity /\ [][NextPurity]_vars

-----------------------------------------------------------------------------
(* The report page: exports and selections, with or without the original     *)
(* validator                                                                 *)

\* the files the user picks here: those above, an empty file and a report
\* of a third machine
SelectableFiles ==
    ReportFiles
    \cup {File("/home/user/empty.json", "empty.json", <<>>),
          File("/home/user/laptop.json", "laptop.json",
               <<[cpu |-> [model |-> Str_cpu_Intel11thGen],
                  gpu |-> [model |-> Str_gpu_Matrox]]>>)}

InitReport ==
    /\ InitMainWindow
    /\ InitBuildPage
    /\ InitAcpiPage
    /\ InitKextPage
    /\ InitVersionPage
    /\ InitSmbiosPage
    /\ InitReportPage
    /\ evaluations = NotObserving

NextReport ==
    \/ export_hardware_report
    \/ \E file \in {<<>>} \cup {<<f>> : f \in SelectableFiles} :
         \E validator \in ValidatorOutcomes : select_hardware_report(file, validator)

SpecReport == InitReport /\ [][NextReport]_vars

-----------------------------------------------------------------------------
(* The SMBIOS page *)

InitSmbios ==
    /\ InitMainWindow
    /\ InitBuildPage
    /\ InitAcpiPage
    /\ InitKextPage
    /\ InitVersionPage
    /\ InitSmbiosPage
    /\ InitReportPage
    /\ evaluations = NotObserving

NextSmbios ==
    \/ \E g \in SmbiosOutcomes : \E seed \in Seeds : generate_new_serial(g, seed)
    \/ \E m \in ModelNames : select_model(m)
    \/ confirm_settings

SpecSmbios == InitSmbios /\ [][NextSmbios]_vars

-----------------------------------------------------------------------------
(* The build page with the other pages: the settings of a first visit to     *)
(* each page are saved, the user has picked another version and another      *)
(* model in the lists, and build runs interleave with the pages' saving      *)
(* operations.  run() only reads self.config, so the steps of the thread     *)
(* are those of SpecBuild and a run here lasts until it is cancelled.        *)

InitSnapshot ==
    /\ hardware_report_path = MockReportPath
    /\ hardware_info = <<mock_report>>
    /\ selected_macos_version = VersionNames[1]
    /\ selected_smbios_model = model_list[1]
    /\ smbios_config = SmbiosConfig(model_list[1], fields)
    /\ selected_acpi_patches = <<>>
    /\ selected_kexts = <<>>
    /\ result_dir = NoDir
    /\ status = T("Ready")
    /\ InitBuildPage
    /\ InitAcpiPage
    /\ InitKextPage
    /\ version_text = VersionNames[2]
    /\ recommend_label = F("Recommendation: ", version_data[VersionNames[2]].compatibility)
    /\ compatibility_result = <<>>
    /\ compatibility_style = "#dee2e6"
    /\ model_text = model_list[2]
    /\ field_inputs = fields
    /\ synthesized = <<>>
    /\ report_info = T("No hardware report selected")
    /\ hardware_overview = OverviewText(mock_report)
    /\ evaluations = NotObserving

NextSnapshot ==
    \/ \E d \in OutputDirs : start_build(d)
    \/ cancel_build
    \/ confirm_selection
    \/ confirm_settings
    \/ apply_patch_selection
    \/ apply_kext_selection
    \/ \E f \in {g \in ReportFiles : g.name = "desktop.json"} :
         \E validator \in ValidatorOutcomes : select_hardware_report(<<f>>, validator)

SpecSnapshot == InitSnapshot /\ [][NextSnapshot]_vars

-----------------------------------------------------------------------------
(* Properties of the build page, checked under SpecBuild *)

Threads == 1..Len(threads)

\* the event loop delivers the oldest queued emission, and it is one of run t
\* of a kind in kinds
Delivers(t, kinds) ==
    /\ deliver
    /\ Head(queue).run = t
    /\ Head(queue).kind \in kinds

\* C1: once cancel_build has terminated a run, the success completion event
\* finished(True) of that run is never delivered to the page.
C1_NoSuccessAfterCancel ==
    [][\A t \in Threads :
          threads[t].state = "terminated"
            => ~(Delivers(t, {"finished"}) /\ Head(queue).success)]_vars

\* the percent checkpoints of a run, in order
Checkpoints == <<10, 20, 35, 50, 65, 80, 90, 100>>

IsPrefix(a, b) == Len(a) <= Len(b) /\ SubSeq(b, 1, Len(a)) = a

\* C2: a run that is not cancelled and in which nothing raises emits the
\* percent checkpoints 10, 20, 35, 50, 65, 80, 90, 100 in this order, each
\* once, and emits finished(True) only after all of them: while a thread
\* executes run() the percents it has emitted are a prefix of the checkpoints,
\* it has emitted finished(True) only with all of them emitted, and where
\* run() returns without an exception it has emitted all of them and exactly
\* one completion event, finished(True).
C2_CheckpointsInOrder ==
    \A t \in Threads :
        threads[t].state = "running" =>
            /\ IsPrefix(threads[t].percents, Checkpoints)
            /\ (\E i \in 1..Len(threads[t].completions) : threads[t].completions[i])
                 => threads[t].percents = Checkpoints
            /\ (threads[t].pc = PcReturn /\ threads[t].exc = None)
                 => /\ threads[t].percents = Checkpoints
                    /\ threads[t].completions = <<TRUE>>

\* C2: a run has emitted every checkpoint and finished(True) and is about to return
C2_Witness ==
    \E t \in Threads :
        /\ threads[t].state = "running"
        /\ threads[t].pc = PcReturn
        /\ threads[t].exc = None
        /\ threads[t].percents = Checkpoints
        /\ threads[t].completions = <<TRUE>>

\* C3: at every moment at most one build thread has been started and has not
\* yet terminated.
C3_OneWorkerInFlight ==
    Cardinality({t \in Threads : threads[t].state = "running"}) <= 1

\* C4: once cancel_build has terminated a run, the run executes no further
\* statement and no progress or log event of it is applied to the page.
C4_NothingAppliedAfterCancel ==
    [][\A t \in Threads :
          threads[t].state = "terminated"
            => /\ threads'[t] = threads[t]
               /\ ~Delivers(t, {"progress", "log"})]_vars

\* C5: start_build starts a thread only when the hardware report path, the
\* macOS version, the SMBIOS model and a non-empty output directory are all
\* present; with one of them missing it starts none and leaves the buttons
\* and the progress value as they are; with all of them present it starts one
\* even when the patch selection and the kext selection are empty.
C5_StartNeedsCompleteConfig ==
    [][\A d \in DirInputs :
          LET present ==
                /\ hardware_report_path \notin {None, ""}
                /\ selected_macos_version \notin {None, ""}
                /\ selected_smbios_model \notin {None, ""}
                /\ d # ""
          IN  /\ Len(threads') > Len(threads) /\ start_build(d) => present
              /\ start_build(d) /\ ~present
                   => UNCHANGED <<threads, build_thread, build_btn, cancel_btn, progress_bar>>
              /\ start_build(d) /\ present
                   => /\ Len(threads') = Len(threads) + 1
                      /\ threads'[build_thread'].state = "running"
                      /\ threads'[build_thread'].config.output_dir = d]_vars

\* C5: a thread has been started with an empty patch and an empty kext selection
C5_Witness ==
    \E t \in Threads :
        /\ threads[t].config.selected_acpi_patches = <<>>
        /\ threads[t].config.selected_kexts = <<>>
        /\ threads[t].config.output_dir # ""

\* the name a stage announces itself with
StageName(k) == StageText(k)[1]

\* C6: when a statement of a run raises, no later stage is entered, the run
\* emits exactly one completion event, finished(False), and what the page
\* shows of the failure (the status message, the progress text) names the
\* stage that failed and carries the error description.
C6_FailureNamesStage ==
    \A t \in Threads :
        ( /\ t = build_thread
          /\ threads[t].state = "running"
          /\ threads[t].pc = PcReturn
          /\ threads[t].exc # None
          /\ status[1] = "Build failed: " )
        => /\ threads[t].completions = <<FALSE>>
           /\ Len(threads[t].percents) <= threads[t].failed_stage
           /\ status[2] = threads[t].exc
           /\ StageName(threads[t].failed_stage) \in
                 {status[1], status[2], progress_info[1], progress_info[2]}

\* C7: main_window.result_dir is set only by a run that completed and was not
\* cancelled, to that run's output directory joined with "OpenCore-EFI".
C7_ResultDirOfCompletedRun ==
    result_dir # NoDir
      => \E t \in Threads :
            /\ threads[t].state # "terminated"
            /\ threads[t].completions = <<TRUE>>
            /\ result_dir = <<threads[t].config.output_dir, "OpenCore-EFI">>

-----------------------------------------------------------------------------
(* Properties of the ACPI page, checked under SpecPatch, and of the kext
   page, checked under SpecKext *)

C9_NoInfoBaselineKexts ==
    [][\A m \in MaestroOutcomes :
          (auto_select_kexts(m) /\ ~HasHardwareInfo(hardware_info))
            => /\ kext_detect'.outcome = "ok"
               /\ \A n \in KextCatalog :
                     kext_checked'[n]
                       <=> n \in {"Lilu.kext", "VirtualSMC.kext",
                                  "WhateverGreen.kext", "AppleALC.kext"}]_vars

\* C9: auto_select_kexts has run without hardware information
C9_Witness ==
    /\ ~HasHardwareInfo(hardware_info)
    /\ kext_detect.outcome = "ok"
    /\ kext_detect.source = "default"
    /\ kext_checked["Lilu.kext"]
    /\ ~kext_checked["NVMeFix.kext"]

Str_laptop == <<"l", "a", "p", "t", "o", "p">>

Str_notebook == <<"n", "o", "t", "e", "b", "o", "o", "k">>

\* the descriptor's form-factor attribute (the one the system type check
\* reads) names a laptop or a notebook, in whatever case
NamesLaptop(hw) ==
    \/ Contains(Str_laptop, Lower(GetModel(hw)))
    \/ Contains(Str_notebook, Lower(GetModel(hw)))

\* C11: whenever the hardware rules have recommended for a descriptor whose
\* form-factor attribute names a laptop or a notebook (for example "laptop"),
\* the recommendation holds SSDT-PNLF besides the basic patches.
C11_LaptopGetsPNLF ==
    ( /\ HasHardwareInfo(hardware_info)
      /\ detect.outcome = "ok"
      /\ detect.source = "simulation"
      /\ NamesLaptop(hardware_info[1]) )
    => {"SSDT-PNLF", "FixRTC", "SSDT-PLUG"} \subseteq detect.recommended

\* the descriptor's motherboard chipset is one of the newer chipsets
HasNewerChipset(hw) ==
    /\ "motherboard" \in DOMAIN hw
    /\ "chipset" \in DOMAIN hw["motherboard"]
    /\ \E x \in NewerChipsets : Contains(x, Lower(hw["motherboard"]["chipset"]))

\* C12: whenever the hardware rules have recommended for a descriptor whose
\* motherboard chipset matches z390, z490, z590, z690, b360, b460, b560 or
\* b660, the recommendation holds SSDT-AWAC.
C12_NewerChipsetGetsAWAC ==
    ( /\ HasHardwareInfo(hardware_info)
      /\ detect.outcome = "ok"
      /\ detect.source = "simulation"
      /\ HasNewerChipset(hardware_info[1]) )
    => "SSDT-AWAC" \in detect.recommended

-----------------------------------------------------------------------------
(* Properties of the version page, checked under SpecCompat *)

\* the result area shows the outcome of a compatibility check
Checked == compatibility_result # <<>>

\* the positions of the lines of a kind in the result area
LinesOf(kind) == {i \in 1..Len(compatibility_result) : compatibility_result[i].kind = kind}

\* the verdicts, from the most restrictive to the least restrictive
TierOrder == <<"Unsupported", "Unknown", "CompatibleWithCaveats", "Compatible">>

Rank(tier) == CHOOSE i \in 1..Len(TierOrder) : TierOrder[i] = tier

\* the verdict a component line of the result area expresses
ComponentTier(line) ==
    CASE line.text \in {"Compatible", "Native support"} -> "Compatible"
      [] line.text \in {"Requires additional patches",
                        "Limited support in some versions"} -> "CompatibleWithCaveats"
      [] line.text = "Compatibility unknown" -> "Unknown"

\* the verdict the overall recommendation expresses, by the colour it is framed in
OverallTier ==
    CASE compatibility_style = "#27ae60" -> "Compatible"
      [] compatibility_style = "#f39c12" -> "CompatibleWithCaveats"
      [] compatibility_style = "#6c757d" -> "Unknown"
      [] compatibility_style = "#e74c3c" -> "Unsupported"

\* C13: once a check has shown component verdicts, the overall verdict is the
\* most restrictive of the cpu and gpu verdicts (Unsupported below Unknown
\* below CompatibleWithCaveats below Compatible), and a gpu verdict of limited
\* support or unknown never comes with a fully positive overall verdict.
C13_OverallIsMostRestrictive ==
    Checked =>
      LET components == LinesOf("cpu") \cup LinesOf("gpu")
          ranks == {Rank(ComponentTier(compatibility_result[i])) : i \in components}
      IN  /\ components # {} =>
                /\ Rank(OverallTier) \in ranks
                /\ \A r \in ranks : Rank(OverallTier) <= r
          /\ \A i \in LinesOf("gpu") :
                ComponentTier(compatibility_result[i]) \in {"CompatibleWithCaveats", "Unknown"}
                  => OverallTier # "Compatible"

\* the keyword buckets of the GPU verdict in the order they are tested
Str_b_IntelIris == <<"I","n","t","e","l"," ","I","r","i","s">>
Str_b_IntelUHD == <<"I","n","t","e","l"," ","U","H","D">>
Str_b_IntelHD == <<"I","n","t","e","l"," ","H","D">>
Str_b_AMD == <<"A","M","D">>
Str_b_Radeon == <<"R","a","d","e","o","n">>
Str_b_NVIDIA == <<"N","V","I","D","I","A">>
Str_b_GTX == <<"G","T","X">>
Str_b_RTX == <<"R","T","X">>

Buckets ==
    <<[keywords |-> {Str_b_IntelIris, Str_b_IntelUHD, Str_b_IntelHD},
       verdict |-> "Native support"],
      [keywords |-> {Str_b_AMD, Str_b_Radeon},
       verdict |-> "Native support"],
      [keywords |-> {Str_b_NVIDIA, Str_b_GTX, Str_b_RTX},
       verdict |-> "Limited support in some versions"]>>

\* the buckets of which a keyword occurs in the model string
Matching(gpu_model) ==
    {b \in 1..Len(Buckets) : \E k \in Buckets[b].keywords : Contains(k, gpu_model)}

\* C14: the gpu line of a check carries the verdict of the first bucket, in the
\* order native-full, native, capped, of which a keyword occurs in the model
\* string, whatever later buckets match too, and the unknown verdict when no
\* bucket matches.
C14_FirstBucketWins ==
    \A i \in LinesOf("gpu") :
      LET line == compatibility_result[i]
          matching == Matching(line.model)
      IN  IF matching = {}
          THEN line.text = "Compatibility unknown"
          ELSE \E b \in matching :
                 /\ \A other \in matching : b <= other
                 /\ line.text = Buckets[b].verdict

\* checks have shown a model string with keywords of the first and of the last
\* bucket as natively supported, and a model string of no bucket as unknown
C14_Witness ==
    /\ Checked
    /\ \E i \in LinesOf("gpu") :
         /\ Cardinality(Matching(compatibility_result[i].model)) > 1
         /\ Len(Buckets) \in Matching(compatibility_result[i].model)
         /\ compatibility_result[i].text = "Native support"

\* the descriptor of the scenario as written, and with the vendor in the model string
ScenarioAX ==
    [cpu |-> [vendor |-> "A", model |-> Str_cpu_X11thGen],
     gpu |-> [model |-> Str_gpu_VendorYRadeon]]

ScenarioIntel ==
    [cpu |-> [model |-> Str_cpu_Intel11thGen],
     gpu |-> [model |-> Str_gpu_VendorYRadeon]]

\* the result area shows a check of the descriptor for the version
CheckedFor(descriptor, version) ==
    /\ Checked
    /\ hardware_info = <<descriptor>>
    /\ compatibility_result[1] = Line("header", Str_Empty, version)

\* the result shown is: cpu Compatible, gpu natively supported, the cpu line
\* before the gpu line, the overall verdict CompatibleWithCaveats or better
ScenarioResult ==
    /\ \E c \in LinesOf("cpu"), g \in LinesOf("gpu") :
         /\ compatibility_result[c].text = "Compatible"
         /\ compatibility_result[g].text = "Native support"
         /\ c < g
    /\ OverallTier \in {"CompatibleWithCaveats", "Compatible"}

C16_MissingModelIsUnknown ==
    Checked =>
      \A section \in {"cpu", "gpu"} :
        (section \in DOMAIN hardware_info[1] /\ "model" \notin DOMAIN hardware_info[1][section])
          => \E i \in LinesOf(section) : compatibility_result[i].text = "Compatibility unknown"


-----------------------------------------------------------------------------
(* Properties of the report and version pages together, checked under SpecPurity *)

-----------------------------------------------------------------------------
(* Properties of the SMBIOS page, checked under SpecSmbios *)

\* the original SMBIOS generator is not usable
Unusable == [kind |-> "raises", data |-> EmptyDict]

\* the characters a generated identifier is made of
UpperOrDigit == {UpperCase[i] : i \in 1..Len(UpperCase)} \cup {Digits[i] : i \in 1..Len(Digits)}

\* s has the given length and only uppercase letters and digits
Identifier(s, length) ==
    /\ Len(s) = length
    /\ \A i \in 1..Len(s) : s[i] \in UpperOrDigit

\* s is five groups of 8, 4, 4, 4 and 12 uppercase letters or digits, joined by "-"
GroupedIdentifier(s) ==
    /\ Len(s) = 36
    /\ \A i \in 1..Len(s) : IF i \in {9, 14, 19, 24} THEN s[i] = "-"
                                                      ELSE s[i] \in UpperOrDigit

\* the four fields have the format of the simulated generator
SimulatedFormat(inputs) ==
    /\ Identifier(inputs["Serial Number:"], 12)
    /\ Identifier(inputs["Board Serial Number:"], 12)
    /\ Identifier(inputs["MLB:"], 20)
    /\ GroupedIdentifier(inputs["UUID:"])

\* C18: when the original generator is not usable, generate_new_serial leaves
\* a serial number of 12 characters, a board serial number of 12 characters,
\* an MLB of 20 characters and a UUID of the pattern 8-4-4-4-12, every
\* character of them an uppercase letter or a digit.
C18_SimulatedFormat ==
    [][(\E seed \in Seeds : generate_new_serial(Unusable, seed))
         => SimulatedFormat(field_inputs')]_vars

\* the fields hold the outcome of a simulated generation
C18_Witness ==
    /\ status = T("Generating new serial number...")
    /\ SimulatedFormat(field_inputs)
    /\ field_inputs # fields

\* C19: when settings are confirmed for a model other than the one of the saved
\* record, none of the four identity fields saved is carried over from the
\* saved record.
C19_NoReuseAcrossModels ==
    [][(/\ confirm_settings
        /\ smbios_config # <<>>
        /\ model_text # smbios_config[1].model)
         => /\ smbios_config'[1].serial # smbios_config[1].serial
            /\ smbios_config'[1].uuid # smbios_config[1].uuid
            /\ smbios_config'[1].board_serial # smbios_config[1].board_serial
            /\ smbios_config'[1].mlb # smbios_config[1].mlb]_vars

\* C20: after generate_new_serial, whatever the original generator did, the
\* four fields are either all left unchanged or all set to the non-empty
\* values of this generation.
C20_AllOrNothing ==
    [][\A g \in SmbiosOutcomes, seed \in Seeds :
         generate_new_serial(g, seed)
           => \/ field_inputs' = field_inputs
              \/ /\ field_inputs' = NewValues(g, seed)
                 /\ \A l \in FieldSet : field_inputs'[l] \notin {Str_Empty, NotAString}]_vars



\* C21: a simulated generation for the model of the latest simulated
\* generation, the program taking no seed from its caller in either, leaves
\* the same four values.
C21_SameModelSameRecord ==
    [][(/\ \E seed \in Seeds : generate_new_serial(Unusable, seed)
        /\ synthesized # <<>>
        /\ synthesized[1].model = model_text)
         => field_inputs' = synthesized[1].values]_vars


-----------------------------------------------------------------------------
(* Properties of the saved selections, checked under SpecSelect *)

\* the names of a saved selection, in its order
NamesOf(selection) == [i \in 1..Len(selection) |-> selection[i].name]

\* every name of the sequence is in the catalog and none occurs twice
WithinCatalog(names, catalog) ==
    /\ \A i \in 1..Len(names) : names[i] \in catalog
    /\ \A i, j \in 1..Len(names) : names[i] = names[j] => i = j

\* the names whose check box is checked
CheckedSet(checks) == {n \in DOMAIN checks : checks[n]}

\* the names of a saved selection, as a set
SavedSet(selection) == {selection[i].name : i \in 1..Len(selection)}

\* C22: the saved patch selection holds only names of the patch catalog, none
\* twice, and the saved kext selection only names of the kext catalog, none
\* twice.
C22_SavedSelectionsWithinCatalog ==
    /\ WithinCatalog(NamesOf(selected_acpi_patches), PatchCatalog)
    /\ WithinCatalog(NamesOf(selected_kexts), KextCatalog)

\* both selections were saved after the original recommenders had named
\* something the lists do not show
C22_Witness ==
    /\ detect.source = "guru"
    /\ detect.recommended \ PatchCatalog # {}
    /\ SavedSet(selected_acpi_patches) = CheckedSet(patches_checked)
    /\ "SSDT-AWAC" \in SavedSet(selected_acpi_patches)
    /\ kext_detect.source = "maestro"
    /\ kext_detect.recommended \ KextCatalog # {}
    /\ SavedSet(selected_kexts) = CheckedSet(kext_checked)
    /\ "IntelMausi.kext" \in SavedSet(selected_kexts)

\* C27: the saved patch selection changes only in apply_selection of the ACPI
\* page and the saved kext selection only in apply_selection of the kext page;
\* auto_detect_patches, select_all_patches, clear_all_patches and
\* auto_select_kexts leave both unchanged.
C27_SavedOnlyByApply ==
    [][/\ selected_acpi_patches' # selected_acpi_patches => apply_patch_selection
       /\ selected_kexts' # selected_kexts => apply_kext_selection]_vars

\* selections were saved, then select_all_patches and auto_select_kexts
\* changed the check boxes away from them
C27_Witness ==
    /\ selected_acpi_patches # <<>>
    /\ selected_kexts # <<>>
    /\ CheckedSet(patches_checked) = PatchCatalog
    /\ SavedSet(selected_acpi_patches) # PatchCatalog
    /\ kext_detect.outcome = "ok"
    /\ CheckedSet(kext_checked) = kext_detect.recommended \cap KextCatalog
    /\ SavedSet(selected_kexts) # CheckedSet(kext_checked)


-----------------------------------------------------------------------------
(* Further properties of the ACPI page, checked under SpecPatch *)

\* the original ACPI Guru is not usable
GuruUnavailable == [kind |-> "raises", patches |-> {}]

\* C24: when auto_detect_patches recommends by its own hardware rules, the
\* patches checked afterwards are exactly the recommended ones, whatever was
\* checked before: every recommended patch is checked, every patch neither
\* recommended nor one of FixHPET, FixRTC, SSDT-PLUG is unchecked, and a run
\* from the check states such a run leaves changes no check state.
C24_ExactlyRecommended ==
    [][(auto_detect_patches(GuruUnavailable) /\ detect'.source = "simulation")
         => /\ CheckedSet(patches_checked') = detect'.recommended
            /\ \A n \in PatchCatalog :
                 /\ n \in detect'.recommended => patches_checked'[n]
                 /\ n \notin detect'.recommended \cup {"FixHPET", "FixRTC", "SSDT-PLUG"}
                      => ~patches_checked'[n]
            /\ (detect.source = "simulation"
                  /\ CheckedSet(patches_checked) = detect.recommended)
                 => patches_checked' = patches_checked]_vars

\* the hardware rules have recommended more than the basic patches and the
\* check boxes, which are not as init_ui left them, show exactly the recommendation
C24_Witness ==
    /\ detect.source = "simulation"
    /\ status = T("Auto-detecting best ACPI patches...")
    /\ CheckedSet(patches_checked) = detect.recommended
    /\ "SSDT-PNLF" \in detect.recommended
    /\ patches_checked # InitialPatchChecks


-----------------------------------------------------------------------------
(* Properties of the patch filter, checked under SpecFilter *)

\* the list items that are not hidden
Visible == {n \in PatchCatalog : ~hidden[n]}

\* C29: with an empty search text and a priority other than 'All' picked,
\* exactly the patches of that priority are visible; with 'All', every patch
\* whose name or description contains the search text is visible.
C29_FilterByPriority ==
    /\ (search_text = Str_Empty /\ priority_filter # "All")
         => Visible = {n \in PatchCatalog : patches_data[n].priority = priority_filter}
    /\ priority_filter = "All"
         => \A n \in PatchCatalog :
              (Contains(Lower(search_text), Lower(PatchNameText[n]))
                 \/ Contains(Lower(search_text), Lower(PatchDescriptionText[n])))
                => n \in Visible


-----------------------------------------------------------------------------
(* Further properties of the build page, checked under SpecBuild and, for *)
(* what must eventually happen, under SpecBuildLive                       *)

\* a completion event of run t waits in the event queue
CompletionQueued(t) ==
    \E i \in 1..Len(queue) : queue[i].kind = "finished" /\ queue[i].run = t

\* the terminal outcome of run t has been processed: it was cancelled, or its
\* completion event was emitted and has been taken out of the queue
OutcomeProcessed(t) ==
    \/ threads[t].state = "terminated"
    \/ threads[t].completions # <<>> /\ ~CompletionQueued(t)

\* C23: every started run eventually runs no more, and whenever Start is
\* disabled (a run was started) the page eventually has Start enabled and
\* Cancel disabled again.
C23_StartEnabledAgain ==
    /\ \A t \in 1..MaxRuns :
         (t <= Len(threads) /\ threads[t].state = "running")
           ~> (/\ t <= Len(threads)
               /\ threads[t].state # "running"
               /\ (OutcomeProcessed(t) \/ build_btn))
    /\ (~build_btn) ~> (build_btn /\ ~cancel_btn)

\* one run was cancelled, then one failed and its completion event was
\* processed, and Start is enabled
C23_Witness ==
    /\ Len(threads) = MaxRuns
    /\ threads[1].state = "terminated"
    /\ threads[Len(threads)].state = "finished"
    /\ threads[Len(threads)].completions = <<FALSE>>
    /\ OutcomeProcessed(Len(threads))
    /\ build_btn
    /\ ~cancel_btn

\* C25: exactly one of Start and Cancel is enabled, and while Cancel is enabled
\* a run has been started whose terminal outcome is not processed yet.
C25_ButtonsComplementary ==
    /\ build_btn # cancel_btn
    /\ cancel_btn => (build_thread # 0 /\ ~OutcomeProcessed(build_thread))

\* Cancel is enabled while the completion event of the run waits in the queue
C25_Witness ==
    /\ cancel_btn
    /\ ~build_btn
    /\ build_thread = MaxRuns
    /\ CompletionQueued(build_thread)


-----------------------------------------------------------------------------
(* The configuration of a run *)

\* the fields of the main window start_build copies into build_config
Saved ==
    [hardware_report_path |-> hardware_report_path,
     macos_version |-> selected_macos_version,
     smbios_config |-> smbios_config,
     selected_acpi_patches |-> selected_acpi_patches,
     selected_kexts |-> selected_kexts]

\* C26: the configuration of a run is the snapshot start_build took.  No step
\* of the window changes the configuration a BuildThread holds: saving another
\* macOS version, other SMBIOS settings, another patch or kext selection or
\* another hardware report while the run is in progress leaves it as it was.
\* (build_config refers to the objects current at start_build; the pages
\* assign new objects to the main window's fields and update none in place.)
C26_ConfigIsSnapshot ==
    [][\A t \in Threads : /\ t <= Len(threads')
                          /\ threads'[t].config = threads[t].config]_vars

\* a run in progress whose configuration differs from what the pages have
\* saved since in each of the five settings
C26_Witness ==
    /\ build_thread # 0
    /\ isRunning(build_thread)
    /\ \A k \in DOMAIN Saved : threads[build_thread].config[k] # Saved[k]

-----------------------------------------------------------------------------
(* The stored report *)

\* what json.load makes of the file at path: the export writes mock_report,
\* the other files are as the user left them
ContentAt(path) ==
    IF path = MockReportPath THEN <<mock_report>>
    ELSE IF \E f \in SelectableFiles : f.path = path
    THEN (CHOOSE f \in SelectableFiles : f.path = path).parsed
    ELSE <<>>

\* the path and the information are both unset, or the information is the
\* parsed content of the file at the path
StoredWhole ==
    \/ hardware_report_path = None /\ hardware_info = NoInfo
    \/ /\ hardware_report_path # None
       /\ hardware_info # NoInfo
       /\ hardware_info = ContentAt(hardware_report_path)

\* a selection of a file the validator rejects or json.load cannot parse
FailedSelection ==
    \E f \in SelectableFiles : \E validator \in ValidatorOutcomes :
        /\ select_hardware_report(<<f>>, validator)
        /\ validator = "rejects" \/ f.parsed = <<>>

\* C28: selecting a hardware report that fails validation or cannot be parsed
\* leaves hardware_report_path and hardware_info as they were, and in every
\* reachable state the two are both unset or the information is the parsed
\* content of the file at the path.
C28_ReportStoredWhole ==
    /\ []StoredWhole
    /\ [][FailedSelection =>
            UNCHANGED <<hardware_report_path, hardware_info>>]_vars

-----------------------------------------------------------------------------
(* The version and the verdicts *)

\* C30: the verdicts do not depend on the selected version.  What a check
\* shows is, for every version of the list, what the check of the same
\* hardware information for that version shows, but for the header line,
\* which names the version selected; the colour of the frame is that of the
\* overall recommendation for the hardware information alone.
C30_VerdictsIgnoreVersion ==
    (Checked /\ HasHardwareInfo(hardware_info)) =>
      /\ \A v \in VersionList :
            /\ Tail(compatibility_result) = Tail(ResultText(hardware_info[1], v))
            /\ Head(ResultText(hardware_info[1], v)) = Line("header", Str_Empty, v)
      /\ Head(compatibility_result).kind = "header"
      /\ Head(compatibility_result).text \in VersionList
      /\ compatibility_style = Overall(hardware_info[1]).style

\* a check for a version other than the first shows a cpu verdict, a gpu
\* verdict and the overall recommendation
C30_Witness ==
    /\ Checked
    /\ status = T("Compatibility check completed")
    /\ Head(compatibility_result).text # VersionNames[1]
    /\ LinesOf("cpu") # {}
    /\ LinesOf("gpu") # {}
    /\ LinesOf("overall") # {}

=============================================================================
